---- MODULE Spec2Model ----
(***************************************************************************)
(* conflagrate: control-flow graphs compiled into tokio tasks.             *)
(*                                                                         *)
(* The model follows the runtime kernel (src/src/branchtracker.rs), the    *)
(* lowering of a graph into tasks (macros/src/graph/executablegraph.rs)    *)
(* and the code each task is generated with (macros/src/graph/task.rs).    *)
(* Generated code is kept as a list of instructions (spawn, add_branch,    *)
(* remove_branch) that the running task executes one at a time; the        *)
(* scheduler interleaves the instructions of different tasks freely.       *)
(* Further parts: the plan without task fusion, panics in node bodies, a   *)
(* caller that drops the future of run_graph, a second call of run_graph,  *)
(* the DependencyCache (src/src/dependencies.rs) with the statements that  *)
(* resolve a dependency (macros/src/funcutils.rs, macros/src/dependency.rs)*)
(* and the construction of the graph from the statements of its source     *)
(* (macros/src/graph/descriptivegraph.rs).                                 *)
(***************************************************************************)
EXTENDS Integers, Sequences, FiniteSets, TLC

VARIABLES
    graph,      \* name of the graph being run (chosen at Init)
    tasks,      \* every task spawned so far, in spawn order
    bt,         \* the BranchTracker behind Arc<Mutex<..>>
    chan,       \* values sent on the oneshot channel, in order
    rg_pc,      \* position of run_graph: "start", "await", "returned"
    result,     \* what run_graph returned
    call_log,   \* history of add_branch / remove_branch calls
    plan,       \* how nodes are grouped into tasks: "fused" or "unfused"
    run2,       \* a second invocation of run_graph: its tracker and channel
    dep,        \* a DependencyCache and the tasks resolving dependencies
    build       \* a graph! expansion: statements left, graph built, outcome

vars == <<graph, tasks, bt, chan, rg_pc, result, call_log, plan, run2, dep, build>>

-----------------------------------------------------------------------------
(* Bounds *)

\* A matcher may send control back to a node already on its path only while
\* the path is shorter than this.
MaxIter == 3
\* Tracker harness: number of concurrent callers and calls per caller.
NumCallers == 2
MaxCalls == 2
\* Number of tasks that resolve a dependency concurrently.
NumResolvers == 3
\* Longest list of statements given to graph!.
MaxStmts == 3

-----------------------------------------------------------------------------
(* Values flowing between nodes: the path of nodes executed so far, tagged   *)
(* "plain" for an ordinary payload and "Ok"/"Err" for a Result.              *)

Plain(path) == [tag |-> "plain", path |-> path]
Ok(path) == [tag |-> "Ok", path |-> path]
Err(path) == [tag |-> "Err", path |-> path]
\* A match on a Result that binds the whole Result instead of its content.
Inner_whole(res) == res

Inner(res) == Plain(res.path)
first_node_args == Plain(<<>>)
NoValue == [tag |-> "none", path |-> <<>>]

Range(s) == {s[i] : i \in DOMAIN s}

-----------------------------------------------------------------------------
(* Graph IR *)

DEFAULT_MATCH_VALUE == ""

NoArms == [k \in {} |-> ""]

Node(dests) ==
    [branch |-> "parallel", destinations |-> dests, arms |-> NoArms,
     ok |-> <<>>, err |-> <<>>]

MatcherNode(arms) ==
    [branch |-> "matcher", destinations |-> <<>>, arms |-> arms,
     ok |-> <<>>, err |-> <<>>]

ResultMatcherNode(ok, err) ==
    [branch |-> "resultmatcher", destinations |-> <<>>, arms |-> NoArms,
     ok |-> ok, err |-> err]

\* The graphs that are run.  Each is [start, nodes].
Graphs ==
    [ Single |->
        [start |-> "start", nodes |-> [n \in {"start"} |-> Node(<<>>)]],
      Chain |->
        [start |-> "store",
         nodes |-> [n \in {"store", "store_another", "print"} |->
            CASE n = "store" -> Node(<<"store_another">>)
              [] n = "store_another" -> Node(<<"print">>)
              [] OTHER -> Node(<<>>)]],
      Parallel |->
        [start |-> "start",
         nodes |-> [n \in {"start", "welcome1", "welcome2"} |->
            IF n = "start" THEN Node(<<"welcome1", "welcome2">>) ELSE Node(<<>>)]],
      FanOut |->
        [start |-> "S",
         nodes |-> [n \in {"S", "X", "Y", "Z"} |->
            IF n = "S" THEN Node(<<"X", "Y", "Z">>) ELSE Node(<<>>)]],
      Nested |->
        [start |-> "S",
         nodes |-> [n \in {"S", "A", "B", "A1", "A2"} |->
            CASE n = "S" -> Node(<<"A", "B">>)
              [] n = "A" -> Node(<<"A1", "A2">>)
              [] OTHER -> Node(<<>>)]],
      Branching |->
        [start |-> "start",
         nodes |-> [n \in {"start", "option1", "option2", "default"} |->
            IF n = "start"
            THEN MatcherNode([k \in {"1", "2", ""} |->
                    CASE k = "1" -> "option1" [] k = "2" -> "option2"
                      [] OTHER -> "default"])
            ELSE Node(<<>>)]],
      NoDefault |->
        [start |-> "pre",
         nodes |-> [n \in {"pre", "M", "A", "B"} |->
            CASE n = "pre" -> Node(<<"M">>)
              [] n = "M" -> MatcherNode([k \in {"a", "b"} |->
                                IF k = "a" THEN "A" ELSE "B"])
              [] OTHER -> Node(<<>>)]],
      Loop |->
        [start |-> "N",
         nodes |-> [n \in {"N", "T"} |->
            IF n = "N"
            THEN MatcherNode([k \in {"again", ""} |->
                    IF k = "again" THEN "N" ELSE "T"])
            ELSE Node(<<>>)]],
      ResultBranching |->
        [start |-> "start",
         nodes |-> [n \in {"start", "success", "success_parallel", "error"} |->
            IF n = "start"
            THEN ResultMatcherNode(<<"success", "success_parallel">>, <<"error">>)
            ELSE Node(<<>>)]],
      ResultOkOnly |->
        [start |-> "R",
         nodes |-> [n \in {"R", "U"} |->
            IF n = "R" THEN ResultMatcherNode(<<"U">>, <<>>) ELSE Node(<<>>)]],
      ResultTerminal |->
        [start |-> "pre",
         nodes |-> [n \in {"pre", "R"} |->
            IF n = "pre" THEN Node(<<"R">>) ELSE ResultMatcherNode(<<>>, <<>>)]] ]

GraphNames == DOMAIN Graphs


-----------------------------------------------------------------------------
(* Lowering: one task per node, fusing linear parallel chains               *)

\* A parallel node's successors as Branches::Parallel, a matcher's arms as
\* Branches::Match, a result matcher's lists as Branches::ResultMatch.
get_destinations(node) ==
    CASE node.branch = "parallel" ->
            [kind |-> "Parallel", branches |-> node.destinations,
             branch_map |-> NoArms, ok |-> <<>>, err |-> <<>>]
      [] node.branch = "matcher" ->
            [kind |-> "Match", branches |-> <<>>,
             branch_map |-> node.arms, ok |-> <<>>, err |-> <<>>]
      [] OTHER ->
            [kind |-> "ResultMatch", branches |-> <<>>,
             branch_map |-> NoArms, ok |-> node.ok, err |-> node.err]

node_returns_matcher_value(node) == node.branch = "matcher"

ResultDestinations_is_empty(d) == d.ok = <<>> /\ d.err = <<>>

RECURSIVE collect_nodes_for_task(_, _, _)
collect_nodes_for_task(this_node, nodes, graph_nodes_map) ==
    LET pushed == Append(nodes, this_node)
        dest == get_destinations(graph_nodes_map[this_node])
    IN  IF /\ graph_nodes_map[this_node].branch = "parallel"
           /\ dest.kind = "Parallel"
           /\ Len(dest.branches) = 1
        THEN collect_nodes_for_task(dest.branches[1], pushed, graph_nodes_map)
        ELSE pushed

-----------------------------------------------------------------------------
(* Generated code.  A block is a sequence of instructions.                  *)

Instr(op, task) == [op |-> op, task |-> task, owns |-> FALSE]

TaskName_from(name) == <<"execute_", name>>

RECURSIVE convert_vec_string_to_vec_task_name(_)
convert_vec_string_to_vec_task_name(nodes) ==
    IF nodes = <<>> THEN <<>>
    ELSE <<TaskName_from(Head(nodes))>>
            \o convert_vec_string_to_vec_task_name(Tail(nodes))

branchtracker_add_branch == Instr("add_branch", <<>>)

branchtracker_remove_branch == Instr("remove_branch", <<>>)

create_spawn_block(next_task_name, owns_args) ==
    [op |-> "spawn", task |-> next_task_name, owns |-> owns_args]

RECURSIVE SpawnParallel_loop(_, _, _, _)
SpawnParallel_loop(task_names, index, needs_add_branch, tokens) ==
    IF index > Len(task_names) THEN tokens
    ELSE LET t1 == IF needs_add_branch
                   THEN Append(tokens, branchtracker_add_branch)
                   ELSE tokens
             t2 == Append(t1, create_spawn_block(task_names[index],
                                                 index = Len(task_names)))
         IN  SpawnParallel_loop(task_names, index + 1, TRUE, t2)

\* SpawnParallel that stops one successor short.
SpawnParallel_to_tokens_short(task_names) ==
    SpawnParallel_loop(SubSeq(task_names, 1, Len(task_names) - 1), 1, FALSE, <<>>)

\* SpawnParallel that adds a branch for the first successor too.
SpawnParallel_to_tokens_eager(task_names) ==
    SpawnParallel_loop(task_names, 1, TRUE, <<>>)

SpawnParallel_to_tokens(task_names) ==
    SpawnParallel_loop(task_names, 1, FALSE, <<>>)

\* MatchCase: RegularCase(value, task), DefaultCase(task) or NoDefault.
NoDefault == [kind |-> "NoDefault", value |-> "", task |-> <<>>]

\* MatchCase::from without the default arm: "" is an ordinary literal.
MatchCase_from_literal(value, task_name) ==
    [kind |-> "RegularCase", value |-> value, task |-> task_name]

MatchCase_from(value, task_name) ==
    IF value = DEFAULT_MATCH_VALUE
    THEN [kind |-> "DefaultCase", value |-> "", task |-> task_name]
    ELSE [kind |-> "RegularCase", value |-> value, task |-> task_name]

\* Match arms that count their successor as an extra branch.
MatchCase_to_tokens_add(case) ==
    CASE case.kind = "RegularCase" ->
            [wild |-> FALSE, lit |-> case.value,
             body |-> <<branchtracker_add_branch,
                        create_spawn_block(case.task, TRUE)>>]
      [] case.kind = "DefaultCase" ->
            [wild |-> TRUE, lit |-> "",
             body |-> <<branchtracker_add_branch,
                        create_spawn_block(case.task, TRUE)>>]
      [] OTHER ->
            [wild |-> TRUE, lit |-> "",
             body |-> <<branchtracker_remove_branch>>]

\* One arm of the generated match: a string literal pattern or the wildcard.
MatchCase_to_tokens(case) ==
    CASE case.kind = "RegularCase" ->
            [wild |-> FALSE, lit |-> case.value,
             body |-> <<create_spawn_block(case.task, TRUE)>>]
      [] case.kind = "DefaultCase" ->
            [wild |-> TRUE, lit |-> "",
             body |-> <<create_spawn_block(case.task, TRUE)>>]
      [] OTHER ->
            [wild |-> TRUE, lit |-> "",
             body |-> <<branchtracker_remove_branch>>]

\* The keys of a map in the order the HashMap happens to iterate them.
RECURSIVE IterationOrder(_)
IterationOrder(keys) ==
    IF keys = {} THEN <<>>
    ELSE LET k == CHOOSE x \in keys : TRUE
         IN  <<k>> \o IterationOrder(keys \ {k})

RECURSIVE SpawnMatch_loop(_, _, _, _)
SpawnMatch_loop(map, order, match_cases, default) ==
    IF order = <<>> THEN Append(match_cases, default)
    ELSE LET case == MatchCase_from(Head(order), map[Head(order)])
         IN  IF case.kind = "DefaultCase"
             THEN SpawnMatch_loop(map, Tail(order), match_cases, case)
             ELSE SpawnMatch_loop(map, Tail(order), Append(match_cases, case), default)

SpawnMatch_from(map) ==
    SpawnMatch_loop(map, IterationOrder(DOMAIN map), <<>>, NoDefault)

SpawnMatch_to_tokens(cases) ==
    [i \in DOMAIN cases |-> MatchCase_to_tokens(cases[i])]

\* destinations_to_blocks that generates nothing for an empty list.
destinations_to_blocks_silent(destinations) ==
    IF destinations = <<>>
    THEN <<>>
    ELSE SpawnParallel_to_tokens(convert_vec_string_to_vec_task_name(destinations))

destinations_to_blocks(destinations) ==
    IF destinations = <<>>
    THEN <<branchtracker_remove_branch>>
    ELSE SpawnParallel_to_tokens(convert_vec_string_to_vec_task_name(destinations))

\* Spawn: SpawnNone, SpawnParallel, SpawnMatch or SpawnResultMatch.
Spawn_from_nodes(nodes, graph_nodes_map) ==
    LET none == [kind |-> "SpawnNone", parallel |-> <<>>, cases |-> <<>>,
                 ok |-> <<>>, err |-> <<>>]
    IN  IF Len(nodes) = 0 THEN none
        ELSE LET dest == get_destinations(graph_nodes_map[nodes[Len(nodes)]])
             IN  CASE dest.kind = "Parallel" ->
                        IF dest.branches = <<>> THEN none
                        ELSE [none EXCEPT
                                !.kind = "SpawnParallel",
                                !.parallel =
                                    convert_vec_string_to_vec_task_name(dest.branches)]
                   [] dest.kind = "Match" ->
                        IF DOMAIN dest.branch_map = {} THEN none
                        ELSE [none EXCEPT
                                !.kind = "SpawnMatch",
                                !.cases = SpawnMatch_from(
                                    [k \in DOMAIN dest.branch_map |->
                                        TaskName_from(dest.branch_map[k])])]
                   [] OTHER ->
                        IF ResultDestinations_is_empty(dest) THEN none
                        ELSE [none EXCEPT
                                !.kind = "SpawnResultMatch",
                                !.ok = dest.ok, !.err = dest.err]

\* Spawn code whose Ok and Err arms are exchanged.
Spawn_to_tokens_swapped(spawn) ==
    LET plain == [form |-> "block", block |-> <<>>, arms |-> <<>>,
                  ok_block |-> <<>>, err_block |-> <<>>]
    IN  CASE spawn.kind = "SpawnNone" ->
                [plain EXCEPT !.block = <<branchtracker_remove_branch>>]
          [] spawn.kind = "SpawnParallel" ->
                [plain EXCEPT !.block = SpawnParallel_loop(spawn.parallel, 1, FALSE, <<>>)]
          [] spawn.kind = "SpawnMatch" ->
                [plain EXCEPT !.form = "match",
                              !.arms = [i \in DOMAIN spawn.cases |->
                                            MatchCase_to_tokens(spawn.cases[i])]]
          [] OTHER ->
                [plain EXCEPT !.form = "match_result",
                              !.ok_block = destinations_to_blocks(spawn.err),
                              !.err_block = destinations_to_blocks(spawn.ok)]

\* The code after the invocation: a plain block, a match on `value`, or a
\* match on the Result in `output`.
Spawn_to_tokens(spawn) ==
    LET plain == [form |-> "block", block |-> <<>>, arms |-> <<>>,
                  ok_block |-> <<>>, err_block |-> <<>>]
    IN  CASE spawn.kind = "SpawnNone" ->
                [plain EXCEPT !.block = <<branchtracker_remove_branch>>]
          [] spawn.kind = "SpawnParallel" ->
                [plain EXCEPT !.block = SpawnParallel_to_tokens(spawn.parallel)]
          [] spawn.kind = "SpawnMatch" ->
                [plain EXCEPT !.form = "match",
                              !.arms = SpawnMatch_to_tokens(spawn.cases)]
          [] OTHER ->
                [plain EXCEPT !.form = "match_result",
                              !.ok_block = destinations_to_blocks(spawn.ok),
                              !.err_block = destinations_to_blocks(spawn.err)]

\* The nested call run_n(.. run_2(run_1(node_args)) ..): <<>> stands for
\* node_args, <<node, arg>> for a call of node's run on arg.
RECURSIVE get_nested_node_invocation_loop(_, _)
get_nested_node_invocation_loop(nodes, node_args) ==
    IF nodes = <<>> THEN node_args
    ELSE get_nested_node_invocation_loop(Tail(nodes), <<Head(nodes), node_args>>)

\* The nesting turned inside out: the first node of the chain is outermost.
get_nested_node_invocation_outside_in(nodes) ==
    get_nested_node_invocation_loop(
        [j \in 1..Len(nodes) |-> nodes[Len(nodes) + 1 - j]], <<>>)

get_nested_node_invocation(nodes) ==
    get_nested_node_invocation_loop(nodes, <<>>)

\* The order in which the calls of a nested call run: the argument first.
RECURSIVE EvaluationOrder(_)
EvaluationOrder(call) ==
    IF call = <<>> THEN <<>>
    ELSE Append(EvaluationOrder(call[2]), call[1])

get_return_capture_args(nodes, graph_nodes_map) ==
    IF node_returns_matcher_value(graph_nodes_map[nodes[Len(nodes)]])
    THEN "(value, output)"
    ELSE "output"

Task_from_nodes(nodes, graph_nodes_map) ==
    [name |-> TaskName_from(nodes[1]),
     invocation |-> nodes,
     call |-> get_nested_node_invocation(nodes),
     capture |-> get_return_capture_args(nodes, graph_nodes_map),
     spawn |-> Spawn_from_nodes(nodes, graph_nodes_map)]

\* build_tasks that makes no task for a node that is the single successor of
\* a parallel node.
build_tasks_heads(graph_nodes_map) ==
    LET tails == { get_destinations(graph_nodes_map[m]).branches[1] :
                     m \in { q \in DOMAIN graph_nodes_map :
                        /\ graph_nodes_map[q].branch = "parallel"
                        /\ Len(get_destinations(graph_nodes_map[q]).branches) = 1 } }
    IN  { Task_from_nodes(collect_nodes_for_task(n, <<>>, graph_nodes_map),
                          graph_nodes_map) : n \in DOMAIN graph_nodes_map \ tails }

build_tasks(graph_nodes_map) ==
    { Task_from_nodes(collect_nodes_for_task(n, <<>>, graph_nodes_map),
                      graph_nodes_map) : n \in DOMAIN graph_nodes_map }

\* The reference plan without fusion: every node is a task of its own, and a
\* node with a single successor spawns it.
unfused_tasks(graph_nodes_map) ==
    { Task_from_nodes(<<n>>, graph_nodes_map) : n \in DOMAIN graph_nodes_map }

\* Self::execute_{name}: the generated method of that name.
TaskOf(g, task_name) ==
    CHOOSE t \in (IF plan = "fused" THEN build_tasks(Graphs[g].nodes)
                                    ELSE unfused_tasks(Graphs[g].nodes)) :
        t.name = task_name


-----------------------------------------------------------------------------
(* BranchTracker                                                            *)

\* AtomicI32::fetch_add wraps around on overflow; it is only ever called with
\* 1 and -1.  The value stored afterwards.
I32_MAX == 2147483647

I32_MIN == (-2147483647) - 1

fetch_add(n, val) ==
    IF val = 1 /\ n = I32_MAX THEN I32_MIN
    ELSE IF val = -1 /\ n = I32_MIN THEN I32_MAX
    ELSE n + val

BranchTracker_new == [num_branches |-> 1, sender |-> TRUE, done |-> FALSE]

\* add_branch without the check of `done`.
add_branch_unguarded(self) ==
    [self EXCEPT !.num_branches = fetch_add(@, 1)]

add_branch(self) ==
    IF self.done THEN self
    ELSE [self EXCEPT !.num_branches = fetch_add(@, 1)]

\* remove_branch that neither checks `done` nor takes the sender.
remove_branch_resend(self, last_node_output) ==
    LET n == fetch_add(self.num_branches, -1)
    IN  IF n <= 0
        THEN [bt |-> [num_branches |-> n, sender |-> self.sender, done |-> TRUE],
              sent |-> IF self.sender THEN <<last_node_output>> ELSE <<>>]
        ELSE [bt |-> [self EXCEPT !.num_branches = n], sent |-> <<>>]

\* remove_branch that finishes one branch early (count <= 1 instead of <= 0).
remove_branch_early(self, last_node_output) ==
    IF self.done THEN [bt |-> self, sent |-> <<>>]
    ELSE LET n == fetch_add(self.num_branches, -1)
         IN  IF n <= 1
             THEN [bt |-> [num_branches |-> n, sender |-> FALSE, done |-> TRUE],
                   sent |-> IF self.sender THEN <<last_node_output>> ELSE <<>>]
             ELSE [bt |-> [self EXCEPT !.num_branches = n], sent |-> <<>>]

\* remove_branch that only finishes below zero (count < 0 instead of <= 0).
remove_branch_strict(self, last_node_output) ==
    IF self.done THEN [bt |-> self, sent |-> <<>>]
    ELSE LET n == fetch_add(self.num_branches, -1)
         IN  IF n < 0
             THEN [bt |-> [num_branches |-> n, sender |-> FALSE, done |-> TRUE],
                   sent |-> IF self.sender THEN <<last_node_output>> ELSE <<>>]
             ELSE [bt |-> [self EXCEPT !.num_branches = n], sent |-> <<>>]

\* remove_branch that takes the sender and drops it without sending.
remove_branch_drop(self, last_node_output) ==
    IF self.done THEN [bt |-> self, sent |-> <<>>]
    ELSE LET n == fetch_add(self.num_branches, -1)
         IN  IF n <= 0
             THEN [bt |-> [num_branches |-> n, sender |-> FALSE, done |-> TRUE],
                   sent |-> <<>>]
             ELSE [bt |-> [self EXCEPT !.num_branches = n], sent |-> <<>>]

\* remove_branch without the check of `done`: it counts down again.
remove_branch_unchecked(self, last_node_output) ==
    LET n == fetch_add(self.num_branches, -1)
    IN  IF n <= 0
        THEN [bt |-> [num_branches |-> n, sender |-> FALSE, done |-> TRUE],
              sent |-> IF self.sender THEN <<last_node_output>> ELSE <<>>]
        ELSE [bt |-> [self EXCEPT !.num_branches = n], sent |-> <<>>]

\* remove_branch that takes the sender on every call and sends with the last.
remove_branch_take_first(self, last_node_output) ==
    IF self.done THEN [bt |-> self, sent |-> <<>>]
    ELSE LET n == fetch_add(self.num_branches, -1)
         IN  IF n <= 0
             THEN [bt |-> [num_branches |-> n, sender |-> FALSE, done |-> TRUE],
                   sent |-> <<last_node_output>>]
             ELSE [bt |-> [self EXCEPT !.num_branches = n, !.sender = FALSE],
                   sent |-> <<>>]

\* The tracker after the call and what the call sent on the channel.
remove_branch(self, last_node_output) ==
    IF self.done THEN [bt |-> self, sent |-> <<>>]
    ELSE LET n == fetch_add(self.num_branches, -1)
         IN  IF n <= 0
             THEN [bt |-> [num_branches |-> n, sender |-> FALSE, done |-> TRUE],
                   sent |-> IF self.sender THEN <<last_node_output>> ELSE <<>>]
             ELSE [bt |-> [self EXCEPT !.num_branches = n], sent |-> <<>>]

\* sender.send(value) on the one-shot channel: the value is delivered while
\* the receiver exists, and handed back in an Err once it has been dropped.
Sender_send(receiver_open, value) ==
    IF receiver_open THEN [delivered |-> <<value>>, result |-> "Ok"]
                     ELSE [delivered |-> <<>>, result |-> "Err"]

\* The result of send unwrapped instead of matched with `_ => {}`.
match_send_unwrap(send_result) ==
    IF send_result = "Err" THEN "panic" ELSE "continue"

\* match sender.send(..) { _ => {} }: whatever send returned, carry on.
match_send(send_result) == "continue"

-----------------------------------------------------------------------------
(* Running tasks                                                            *)

\* A task that has just been spawned with node_args.
NewTask(task_name, node_args, parent, branchtracker) ==
    [name |-> task_name, node_args |-> node_args, parent |-> parent,
     branchtracker |-> branchtracker,
     pc |-> "invoke", k |-> 1, acc |-> node_args,
     value |-> "", returned |-> NoValue, output |-> NoValue,
     code |-> <<>>, holds |-> TRUE]

\* The body of a node type: it extends the path it was given by itself.
NodeType_run(node, args) == Append(args.path, node)

\* The arm of a `match value.as_str()` that is taken: the first that matches.
RECURSIVE match_value(_, _)
match_value(arms, value) ==
    IF Head(arms).wild \/ Head(arms).lit = value
    THEN Head(arms).body
    ELSE match_value(Tail(arms), value)

\* Entering the code after the invocation: the block to run and the value
\* bound to `output` in it.
enter_spawn(tokens, value, output) ==
    CASE tokens.form = "block" -> [code |-> tokens.block, output |-> output]
      [] tokens.form = "match" ->
            [code |-> match_value(tokens.arms, value), output |-> output]
      [] OTHER ->
            IF output.tag = "Ok"
            THEN [code |-> tokens.ok_block, output |-> Inner(output)]
            ELSE [code |-> tokens.err_block, output |-> Inner(output)]

\* The node a matcher's key leads to, as a set (empty: the branch ends).
KeyTarget(node, key) ==
    IF key \in DOMAIN node.arms /\ key # DEFAULT_MATCH_VALUE THEN {node.arms[key]}
    ELSE IF DEFAULT_MATCH_VALUE \in DOMAIN node.arms
         THEN {node.arms[DEFAULT_MATCH_VALUE]}
         ELSE {}

\* What the last node of a chain may return on the path `out`.
Returns(node, out) ==
    CASE node.branch = "parallel" ->
            {[value |-> "", returned |-> Plain(out)]}
      [] node.branch = "matcher" ->
            {[value |-> k, returned |-> Plain(out)] :
                k \in {key \in DOMAIN node.arms \cup {DEFAULT_MATCH_VALUE, "other"} :
                        \/ KeyTarget(node, key) \cap Range(out) = {}
                        \/ Len(out) < MaxIter}}
      [] OTHER ->
            {[value |-> "", returned |-> Ok(out)],
             [value |-> "", returned |-> Err(out)]}

\* A panic that unwinds out of the task while the tracker's Arc stays alive.
unwind_keeping_tracker(t) ==
    [t EXCEPT !.pc = "panicked", !.code = <<>>]

\* A panic unwinds out of the task: tokio catches it and drops the task's
\* future, and with it the task's Arc of the tracker.
unwind(t) ==
    [t EXCEPT !.pc = "panicked", !.code = <<>>, !.holds = FALSE]

\* The task after executing the instruction at the head of its code.
Advance(t) ==
    IF Tail(t.code) = <<>>
    THEN [t EXCEPT !.code = <<>>, !.pc = "done", !.holds = FALSE]
    ELSE [t EXCEPT !.code = Tail(t.code)]

\* The tracker an Arc given to a task points to, and its channel: 1 is the
\* tracker of the run_graph call under study, 2 that of a second call.
TrackerOf(branchtracker) == IF branchtracker = 1 THEN bt ELSE run2.bt

ChanOf(branchtracker) == IF branchtracker = 1 THEN chan ELSE run2.chan

ReceiverOpen(branchtracker) ==
    IF branchtracker = 1 THEN rg_pc # "cancelled" ELSE run2.rg_pc # "cancelled"

LogCall(op, by, arg) ==
    LET on == tasks[by].branchtracker
    IN  Append(call_log, [op |-> op, by |-> by, arg |-> arg, on |-> on,
                          done_before |-> TrackerOf(on).done,
                          sent_before |-> Len(ChanOf(on))])

\* run_graph with one tracker for the whole process instead of one per call.
run_graph_tracker_static(call) == 1

\* let (receiver, raw_branch_tracker) = BranchTracker::new(): every call of
\* run_graph makes a tracker of its own.
run_graph_tracker(call) == call

-----------------------------------------------------------------------------
(* run_graph and the steps of a task                                        *)

\* No second invocation, no cache in use, no expansion under way.
Run2Idle ==
    [bt |-> BranchTracker_new, chan |-> <<>>, rg_pc |-> "idle",
     result |-> [kind |-> "pending", value |-> NoValue]]

DepIdle == <<>>

BuildIdle == <<>>

Init ==
    /\ graph \in GraphNames
    /\ tasks = <<>>
    /\ bt = BranchTracker_new
    /\ chan = <<>>
    /\ rg_pc = "start"
    /\ result = [kind |-> "pending", value |-> NoValue]
    /\ call_log = <<>>
    /\ plan = "fused"
    /\ run2 = Run2Idle
    /\ dep = DepIdle
    /\ build = BuildIdle

\* tokio::spawn of the start task.
RunGraphSpawn ==
    /\ rg_pc = "start"
    /\ tasks' = Append(tasks, NewTask(TaskName_from(Graphs[graph].start),
                                      first_node_args, 0, run_graph_tracker(1)))
    /\ rg_pc' = "await"
    /\ UNCHANGED <<graph, plan, run2, dep, build, bt, chan, result, call_log>>

\* The sender is dropped with the tracker, once no task holds the Arc.
SenderDropped ==
    /\ rg_pc # "start"
    /\ \A i \in DOMAIN tasks : tasks[i].branchtracker = 1 => ~tasks[i].holds

\* receiver.await resolves.
RunGraphReturn ==
    /\ rg_pc = "await"
    /\ chan # <<>> \/ SenderDropped
    /\ result' = IF chan # <<>>
                 THEN [kind |-> "Ok", value |-> chan[1]]
                 ELSE [kind |-> "RecvError", value |-> NoValue]
    /\ rg_pc' = "returned"
    /\ UNCHANGED <<graph, plan, run2, dep, build, tasks, bt, chan, call_log>>

\* The task runs the next node of its chain; after the last one it binds the
\* return value and enters its spawn code.
Invoke(i) ==
    /\ tasks[i].pc = "invoke"
    /\ LET t == tasks[i]
           T == TaskOf(graph, t.name)
           n == EvaluationOrder(T.call)[t.k]
           out == NodeType_run(n, t.acc)
       IN  IF t.k < Len(T.invocation)
           THEN tasks' = [tasks EXCEPT ![i].k = t.k + 1, ![i].acc = Plain(out)]
           ELSE \E r \in Returns(Graphs[graph].nodes[n], out) :
                  LET e == enter_spawn(Spawn_to_tokens(T.spawn), r.value, r.returned)
                  IN  tasks' = [tasks EXCEPT
                                  ![i].pc = IF e.code = <<>> THEN "done" ELSE "spawn",
                                  ![i].holds = e.code # <<>>,
                                  ![i].k = t.k + 1,
                                  ![i].acc = r.returned,
                                  ![i].value = r.value,
                                  ![i].returned = r.returned,
                                  ![i].output = e.output,
                                  ![i].code = e.code]
    /\ UNCHANGED <<graph, plan, run2, dep, build, bt, chan, rg_pc, result, call_log>>

ExecSpawn(i) ==
    /\ tasks[i].pc = "spawn"
    /\ Head(tasks[i].code).op = "spawn"
    /\ tasks' = Append([tasks EXCEPT ![i] = Advance(tasks[i])],
                       NewTask(Head(tasks[i].code).task, tasks[i].output, i,
                               tasks[i].branchtracker))
    /\ UNCHANGED <<graph, plan, run2, dep, build, bt, chan, rg_pc, result, call_log>>

\* branchtracker.lock().await.add_branch();
ExecAddBranch(i) ==
    /\ tasks[i].pc = "spawn"
    /\ Head(tasks[i].code).op = "add_branch"
    /\ IF tasks[i].branchtracker = 1
       THEN bt' = add_branch(bt) /\ UNCHANGED run2
       ELSE run2' = [run2 EXCEPT !.bt = add_branch(run2.bt)] /\ UNCHANGED bt
    /\ tasks' = [tasks EXCEPT ![i] = Advance(tasks[i])]
    /\ call_log' = LogCall("add_branch", i, NoValue)
    /\ UNCHANGED <<graph, plan, dep, build, chan, rg_pc, result>>

\* branchtracker.lock().await.remove_branch(output);
ExecRemoveBranch(i) ==
    /\ tasks[i].pc = "spawn"
    /\ Head(tasks[i].code).op = "remove_branch"
    /\ LET on == tasks[i].branchtracker
           r == remove_branch(TrackerOf(on), tasks[i].output)
           s == IF r.sent = <<>>
                THEN [delivered |-> <<>>, result |-> "Ok"]
                ELSE Sender_send(ReceiverOpen(on), r.sent[1])
       IN  /\ IF on = 1
              THEN /\ bt' = r.bt
                   /\ chan' = chan \o s.delivered
                   /\ UNCHANGED run2
              ELSE /\ run2' = [run2 EXCEPT !.bt = r.bt,
                                           !.chan = run2.chan \o s.delivered]
                   /\ UNCHANGED <<bt, chan>>
           /\ tasks' = [tasks EXCEPT ![i] =
                            IF match_send(s.result) = "panic"
                            THEN unwind(tasks[i])
                            ELSE Advance(tasks[i])]
    /\ call_log' = LogCall("remove_branch", i, tasks[i].output)
    /\ UNCHANGED <<graph, plan, dep, build, rg_pc, result>>

TaskStep(i) ==
    \/ Invoke(i)
    \/ ExecSpawn(i)
    \/ ExecAddBranch(i)
    \/ ExecRemoveBranch(i)

Next ==
    \/ RunGraphSpawn
    \/ RunGraphReturn
    \/ \E i \in DOMAIN tasks : Invoke(i)
    \/ \E i \in DOMAIN tasks : ExecSpawn(i)
    \/ \E i \in DOMAIN tasks : ExecAddBranch(i)
    \/ \E i \in DOMAIN tasks : ExecRemoveBranch(i)

Spec == Init /\ [][Next]_vars

\* The tokio scheduler runs every spawned task and the awaiting caller.
FairSpec ==
    /\ Spec
    /\ WF_vars(RunGraphSpawn)
    /\ WF_vars(RunGraphReturn)
    /\ WF_vars(\E i \in DOMAIN tasks : TaskStep(i))

AllTasksDone == rg_pc # "start" /\ \A i \in DOMAIN tasks : tasks[i].pc = "done"

\* The body of the node the task is running panics.
Panic(i) ==
    /\ tasks[i].pc = "invoke"
    /\ tasks' = [tasks EXCEPT ![i] = unwind(tasks[i])]
    /\ UNCHANGED <<graph, plan, run2, dep, build, bt, chan, rg_pc, result, call_log>>

PanicNext ==
    \/ Next
    \/ \E i \in DOMAIN tasks : Panic(i)

PanicSpec == Init /\ [][PanicNext]_vars

\* The host drops the future of run_graph, and the receiver with it, before
\* anything has been sent.
HostDropsReceiver ==
    /\ rg_pc = "await"
    /\ chan = <<>>
    /\ rg_pc' = "cancelled"
    /\ UNCHANGED <<graph, plan, run2, dep, build, tasks, bt, chan, result, call_log>>

CancelNext ==
    \/ Next
    \/ HostDropsReceiver

CancelSpec == Init /\ [][CancelNext]_vars

\* Every task has returned or panicked.
AllTasksEnded ==
    rg_pc # "start" /\ \A i \in DOMAIN tasks : tasks[i].pc \in {"done", "panicked"}

Panicked == { i \in DOMAIN tasks : tasks[i].pc = "panicked" }


-----------------------------------------------------------------------------
(* A tracker under arbitrary callers: every caller holds the mutex for one  *)
(* call at a time and makes any sequence of add_branch / remove_branch.     *)

RECURSIVE CallSequences(_)
CallSequences(n) ==
    IF n = 0 THEN {<<>>}
    ELSE LET shorter == CallSequences(n - 1)
         IN  shorter \cup
             { Append(c, op) : c \in {s \in shorter : Len(s) = n - 1},
                               op \in {branchtracker_add_branch,
                                       branchtracker_remove_branch} }

\* Caller i passes a value of its own to remove_branch.
Caller(i, calls) ==
    [NewTask(<<"caller", "">>, NoValue, 0, 1) EXCEPT
        !.pc = IF calls = <<>> THEN "done" ELSE "spawn",
        !.output = Plain(<<"caller", ToString(i)>>),
        !.code = calls,
        !.holds = calls # <<>>]

TrackerInit ==
    /\ graph = "Single"
    /\ \E calls \in [1..NumCallers -> CallSequences(MaxCalls) \ {<<>>}] :
          tasks = [i \in 1..NumCallers |-> Caller(i, calls[i])]
    /\ bt = BranchTracker_new
    /\ chan = <<>>
    /\ rg_pc = "await"
    /\ result = [kind |-> "pending", value |-> NoValue]
    /\ call_log = <<>>
    /\ plan = "fused"
    /\ run2 = Run2Idle
    /\ dep = DepIdle
    /\ build = BuildIdle

TrackerNext ==
    \/ \E i \in DOMAIN tasks : ExecAddBranch(i)
    \/ \E i \in DOMAIN tasks : ExecRemoveBranch(i)

TrackerSpec == TrackerInit /\ [][TrackerNext]_vars


-----------------------------------------------------------------------------
(* Properties                                                               *)

\* The tasks spawned by task i, in spawn order.
ChildrenOf(i) == SelectSeq(tasks, LAMBDA t : t.parent = i)

\* The add_branch / remove_branch calls made by task i, in call order.
CallsBy(i, op) == SelectSeq(call_log, LAMBDA c : c.by = i /\ c.op = op)

RemoveCalls == SelectSeq(call_log, LAMBDA c : c.op = "remove_branch")

\* The node whose branch mode decides what task i spawns.
LastNodeOf(i) ==
    LET chain == TaskOf(graph, tasks[i].name).invocation
    IN  Graphs[graph].nodes[chain[Len(chain)]]

\* Task i has run its body to the end.
Finished(i) == tasks[i].pc = "done"

\* C1: the result is delivered only when all branches have completed: once
\* the one-shot has been sent on (and once run_graph has returned) no task of
\* the invocation is still running or still has successors to spawn.
C1_DeliveredOnlyWhenAllComplete ==
    (chan # <<>> \/ rg_pc = "returned") =>
        \A i \in DOMAIN tasks : Finished(i)

\* C2: the delivered value is the argument of the chronologically last
\* remove_branch call of the invocation.
C2_DeliveredIsLastRemoveBranch ==
    (AllTasksDone /\ chan # <<>>) =>
        /\ RemoveCalls # <<>>
        /\ chan[1] = RemoveCalls[Len(RemoveCalls)].arg

\* C3: whatever calls are made on a tracker, in whatever order, the one-shot
\* channel is sent on at most once.
C3_SentAtMostOnce == Len(chan) <= 1

C3_Witness ==
    /\ Len(chan) = 1
    /\ \E j \in DOMAIN call_log :
          /\ call_log[j].op = "remove_branch"
          /\ call_log[j].done_before

\* C4: once the tracker is done, add_branch and remove_branch leave count,
\* done and sender as they are and send nothing.
C4_AbsorbingOnceDone ==
    [][bt.done => (bt' = bt /\ chan' = chan)]_vars

C4_Witness ==
    /\ bt.done
    /\ \E j \in DOMAIN call_log :
          call_log[j].op = "add_branch" /\ call_log[j].done_before
    /\ \E j \in DOMAIN call_log :
          call_log[j].op = "remove_branch" /\ call_log[j].done_before

\* C5: in every tracker state, done implies count <= 0.
C5_DoneImpliesCountNotPositive == bt.done => bt.num_branches <= 0

C5_Witness ==
    /\ bt.done
    /\ \E j \in DOMAIN call_log :
          call_log[j].op = "add_branch" /\ ~call_log[j].done_before

\* C6: when every node returns and every path ends, a fairly scheduled run
\* brings the count to zero and run_graph returns Ok; the receiver is never
\* closed.
C6_EventuallyReturnsOk ==
    /\ <>(bt.num_branches = 0 /\ result.kind = "Ok")
    /\ [](result.kind # "RecvError")

C6_Witness ==
    /\ result.kind = "Ok"
    /\ bt.num_branches = 0
    /\ Len(tasks) >= 3

\* C7: a matcher that returned (k, p) spawns exactly the arm of k with p, else
\* exactly the default with p, else nothing and calls remove_branch(p); it
\* never calls add_branch.
C7_MatcherSpawnsOneOrEnds ==
    \A i \in DOMAIN tasks :
        (Finished(i) /\ LastNodeOf(i).branch = "matcher") =>
            LET arms == LastNodeOf(i).arms
                k == tasks[i].value
                p == tasks[i].returned
                kids == ChildrenOf(i)
                removes == CallsBy(i, "remove_branch")
                only(dest) ==
                    /\ Len(kids) = 1
                    /\ kids[1].name = TaskName_from(dest)
                    /\ kids[1].node_args = p
                    /\ removes = <<>>
            IN  /\ CallsBy(i, "add_branch") = <<>>
                /\ IF k \in DOMAIN arms \ {DEFAULT_MATCH_VALUE}
                   THEN only(arms[k])
                   ELSE IF DEFAULT_MATCH_VALUE \in DOMAIN arms
                        THEN only(arms[DEFAULT_MATCH_VALUE])
                        ELSE /\ kids = <<>>
                             /\ Len(removes) = 1
                             /\ removes[1].arg = p

C7_Witness ==
    \E i \in DOMAIN tasks :
        /\ Finished(i)
        /\ LastNodeOf(i).branch = "matcher"
        /\ tasks[i].value \notin DOMAIN LastNodeOf(i).arms
        /\ DEFAULT_MATCH_VALUE \notin DOMAIN LastNodeOf(i).arms
        /\ Len(CallsBy(i, "remove_branch")) = 1

\* What a result matcher does, with the value it passes to remove_branch
\* when the chosen list is empty left open (ended).
ResultMatcherSpawns(i, ended) ==
    LET node == LastNodeOf(i)
        r == tasks[i].returned
        chosen == IF r.tag = "Ok" THEN node.ok ELSE node.err
        kids == ChildrenOf(i)
        removes == CallsBy(i, "remove_branch")
    IN  /\ Len(kids) = Len(chosen)
        /\ \A j \in DOMAIN kids :
              /\ kids[j].name = TaskName_from(chosen[j])
              /\ kids[j].node_args = Inner(r)
        /\ IF chosen = <<>>
           THEN Len(removes) = 1 /\ removes[1].arg = ended
           ELSE removes = <<>>

\* C8 as stated: Ok(x) spawns all of ok_successors with x and none of
\* err_successors, Err(e) the reverse; an empty chosen list spawns nothing and
\* calls remove_branch with the inner value.
C8_ResultMatcherInnerValue ==
    \A i \in DOMAIN tasks :
        (Finished(i) /\ LastNodeOf(i).branch = "resultmatcher") =>
            ResultMatcherSpawns(i, Inner(tasks[i].returned))

\* C8 amended: as above, but when both lists are empty the node terminates
\* the branch with the whole Result, not its inner value.
C8_ResultMatcherSpawns ==
    \A i \in DOMAIN tasks :
        (Finished(i) /\ LastNodeOf(i).branch = "resultmatcher") =>
            ResultMatcherSpawns(i,
                IF LastNodeOf(i).ok = <<>> /\ LastNodeOf(i).err = <<>>
                THEN tasks[i].returned
                ELSE Inner(tasks[i].returned))

C8_Witness ==
    \E i \in DOMAIN tasks :
        /\ Finished(i)
        /\ LastNodeOf(i).branch = "resultmatcher"
        /\ LastNodeOf(i).ok = <<>>
        /\ LastNodeOf(i).err = <<>>
        /\ tasks[i].returned.tag = "Ok"
        /\ Len(CallsBy(i, "remove_branch")) = 1
        /\ chan = <<tasks[i].returned>>

\* C9: a parallel node starts each of its successors exactly once, each with
\* a value equal to its own output: several successors are spawned as tasks
\* in edge order, a single successor runs next in the parent's own task.
C9_ParallelSpawnsEachOnce ==
    \A i \in DOMAIN tasks :
        Finished(i) =>
            LET chain == TaskOf(graph, tasks[i].name).invocation
                dests == LastNodeOf(i).destinations
                kids == ChildrenOf(i)
            IN  /\ \A n \in 1..(Len(chain) - 1) :
                      Graphs[graph].nodes[chain[n]].destinations = <<chain[n + 1]>>
                /\ tasks[i].returned.path = tasks[i].node_args.path \o chain
                /\ LastNodeOf(i).branch = "parallel" =>
                      /\ Len(kids) = Len(dests)
                      /\ \A j \in DOMAIN kids :
                            /\ kids[j].name = TaskName_from(dests[j])
                            /\ kids[j].node_args = tasks[i].returned

\* A sibling spawned later has finished before an earlier one has started.
C9_Witness ==
    \E a, b \in DOMAIN tasks :
        /\ a < b
        /\ tasks[a].parent = tasks[b].parent
        /\ tasks[a].parent # 0
        /\ LastNodeOf(tasks[a].parent).branch = "parallel"
        /\ tasks[a].pc = "invoke" /\ tasks[a].k = 1
        /\ Finished(b)
        /\ tasks[b].node_args = tasks[a].node_args

\* C10: in the loop graph (N matches "again" back to N, default to T) the
\* count never exceeds 1, N runs once per key returned, and the run ends with
\* T right after the first key that is not "again".
C10_LoopTerminatesOnDefault ==
    graph = "Loop" =>
        LET ns == SelectSeq(tasks, LAMBDA t : t.name = TaskName_from("N"))
            ts == SelectSeq(tasks, LAMBDA t : t.name = TaskName_from("T"))
            keys == SelectSeq(ns, LAMBDA t : t.pc # "invoke")
        IN  /\ bt.num_branches <= 1
            /\ Len(ns) <= Len(keys) + 1
            /\ \A j \in DOMAIN keys :
                  /\ j < Len(ns) => keys[j].value = "again"
                  /\ (keys[j].value = "again" /\ keys[j].pc = "done") => j < Len(ns)
            /\ Len(ts) <= 1
            /\ ts # <<>> =>
                  /\ Len(keys) = Len(ns)
                  /\ ts[1].node_args = Plain([j \in 1..Len(ns) |-> "N"])
            /\ result.kind = "Ok" =>
                  /\ ts # <<>>
                  /\ result.value = Plain([j \in 1..Len(ns) |-> "N"] \o <<"T">>)

C10_Witness ==
    /\ graph = "Loop"
    /\ result.kind = "Ok"
    /\ Len(result.value.path) >= 3

-----------------------------------------------------------------------------
(* Fusion of linear chains against the plan without fusion                  *)

FusionInit ==
    /\ graph \in GraphNames
    /\ tasks = <<>>
    /\ bt = BranchTracker_new
    /\ chan = <<>>
    /\ rg_pc = "start"
    /\ result = [kind |-> "pending", value |-> NoValue]
    /\ call_log = <<>>
    /\ plan \in {"fused", "unfused"}
    /\ run2 = Run2Idle
    /\ dep = DepIdle
    /\ build = BuildIdle

FusionSpec == FusionInit /\ [][Next]_vars

\* The outputs of the node bodies task t has run so far: a node's output is
\* the path it was given, extended by the node.
ExecutedBy(t) ==
    LET chain == EvaluationOrder(TaskOf(graph, t.name).call)
    IN  { t.node_args.path \o SubSeq(chain, 1, j) : j \in 1..(t.k - 1) }

Executed == UNION { ExecutedBy(tasks[i]) : i \in DOMAIN tasks }

\* Every node an edge of the graph leads to from `node`.
SuccessorsOf(node) ==
    Range(node.destinations) \cup Range(node.ok) \cup Range(node.err)
        \cup { node.arms[k] : k \in DOMAIN node.arms }

\* p starts at the start node and follows edges of the graph.
IsWalk(p) ==
    /\ p[1] = Graphs[graph].start
    /\ \A j \in 1..(Len(p) - 1) :
          p[j + 1] \in SuccessorsOf(Graphs[graph].nodes[p[j]])

AddCalls == SelectSeq(call_log, LAMBDA c : c.op = "add_branch")

\* C11: fusing a linear chain changes nothing that can be observed.  With and
\* without fusion alike, every node runs on the output of its predecessor
\* along edges of the graph, remove_branch is called exactly with the outputs
\* of the nodes that end a branch, add_branch once per successor started
\* beyond the first of a node,
\* every successor of a parallel node runs on that node's output, and the
\* value returned is the argument of a remove_branch call.
C11_FusionUnobservable ==
    LET nodes == Graphs[graph].nodes
        last(p) == nodes[p[Len(p)]]
        spawned == { p \in Executed : Len(p) > 1 }
        parents == { p \in Executed :
                       \E d \in SuccessorsOf(last(p)) : Append(p, d) \in Executed }
    IN  /\ \A p \in Executed : IsWalk(p)
        /\ \A j \in DOMAIN RemoveCalls :
              /\ RemoveCalls[j].arg.path \in Executed
              /\ last(RemoveCalls[j].arg.path).destinations = <<>>
              /\ \A k \in DOMAIN RemoveCalls :
                    RemoveCalls[k].arg.path = RemoveCalls[j].arg.path => k = j
        /\ AllTasksDone =>
              /\ \A p \in Executed :
                    last(p).branch = "parallel" =>
                        /\ \A d \in Range(last(p).destinations) :
                              Append(p, d) \in Executed
                        /\ last(p).destinations = <<>> =>
                              \E j \in DOMAIN RemoveCalls :
                                  RemoveCalls[j].arg = Plain(p)
              /\ Len(AddCalls) + Cardinality(parents) = Cardinality(spawned)
              /\ \E j \in DOMAIN RemoveCalls : chan = <<RemoveCalls[j].arg>>

\* The chain store -> store_another -> print has run to its end in one task.
C11_Witness ==
    /\ graph = "Chain"
    /\ plan = "fused"
    /\ Len(tasks) = 1
    /\ AllTasksDone
    /\ result = [kind |-> "Ok",
                 value |-> Plain(<<"store", "store_another", "print">>)]
    /\ Len(call_log) = 1

-----------------------------------------------------------------------------
(* DependencyCache: a StackMap behind a mutex that is taken for one call at *)
(* a time, and the statements generated for a parameter that names a        *)
(* dependency.                                                              *)

\* The providers and the type each returns.
DepTypes == [memory |-> "Mutex<Vec<String>>", settings |-> "String"]

DepNames == DOMAIN DepTypes

\* Arc::new(value): the handle to the n-th object made by a provider.
Arc_new(n, typ) == [obj |-> n, type |-> typ]

StackMap_new == [map |-> [k \in {} |-> Arc_new(0, "")], stack |-> <<>>]

\* insert that takes the key out when it is already present.
StackMap_insert_toggle(self, key, value) ==
    IF key \in DOMAIN self.map
    THEN [map |-> [k \in DOMAIN self.map \ {key} |-> self.map[k]],
          stack |-> Append(self.stack, key)]
    ELSE [map |-> [k \in DOMAIN self.map \cup {key} |->
                      IF k = key THEN value ELSE self.map[k]],
          stack |-> self.stack]

\* insert that leaves a value that is already stored in place.
StackMap_insert_keep(self, key, value) ==
    IF key \in DOMAIN self.map THEN self
    ELSE [map |-> [k \in DOMAIN self.map \cup {key} |->
                      IF k = key THEN value ELSE self.map[k]],
          stack |-> self.stack]

\* The key goes on the stack only when a value was replaced.
StackMap_insert(self, key, value) ==
    LET retval == IF key \in DOMAIN self.map THEN <<self.map[key]>> ELSE <<>>
    IN  [map |-> [k \in DOMAIN self.map \cup {key} |->
                      IF k = key THEN value ELSE self.map[k]],
         stack |-> IF retval # <<>> THEN Append(self.stack, key) ELSE self.stack]

\* get that hands out whatever is stored under the key.
StackMap_get_any(self, key, typ) ==
    IF key \in DOMAIN self.map THEN <<self.map[key]>> ELSE <<>>

\* Option<Arc<T>>: <<>> for None, also when the downcast to T fails.
StackMap_get(self, key, typ) ==
    IF key \in DOMAIN self.map /\ self.map[key].type = typ
    THEN <<self.map[key]>>
    ELSE <<>>

\* contains that never finds the key.
StackMap_contains_never(self, key) == FALSE

StackMap_contains(self, key) == key \in DOMAIN self.map

StackMap_remove(self, key) ==
    [self EXCEPT !.map = [k \in DOMAIN self.map \ {key} |-> self.map[k]]]

\* Drop for StackMap: the keys on the stack are removed last pushed first;
\* the objects released that way, in order, and the map that is left to be
\* dropped as a whole.
RECURSIVE StackMap_drop_loop(_, _, _)
StackMap_drop_loop(self, keys, released) ==
    IF keys = <<>> THEN [self |-> self, released |-> released]
    ELSE LET key == keys[Len(keys)]
             gone == IF key \in DOMAIN self.map THEN <<self.map[key]>> ELSE <<>>
         IN  StackMap_drop_loop(StackMap_remove(self, key),
                                SubSeq(keys, 1, Len(keys) - 1),
                                released \o gone)

StackMap_drop(self) == StackMap_drop_loop(self, self.stack, <<>>)

\* The cache a task holds in `deps`: 0 is the cache the host made, k the
\* k-th cache made by run_graph.
CacheOf(deps) == IF deps = 0 THEN dep.cache ELSE dep.fresh[deps]

\* The inserts made into the cache `deps` under `name` so far, in the order
\* they were made.
InsertsInto(deps, name) ==
    SelectSeq(dep.inserts, LAMBDA e : e.deps = deps /\ e.name = name)

InsertsOf(name) == InsertsInto(0, name)

\* A task of invocation `call`, holding the cache `deps`, about to resolve
\* the dependency `name`.  `had` tells whether the host's cache held the name
\* when the task checked, `ran` whether the task ran the provider, `seen` the
\* number of inserts under the name that had been made when its get ran.
NewResolver(name, deps, call) ==
    [name |-> name, pc |-> "contains", found |-> FALSE,
     value |-> <<>>, handle |-> <<>>, seen |-> 0,
     deps |-> deps, call |-> call, had |-> FALSE, ran |-> FALSE,
     spawned |-> FALSE]

Resolver(name) == NewResolver(name, 0, 0)

CacheInitWith(resolvers) ==
    /\ graph = "Single"
    /\ tasks = <<>>
    /\ bt = BranchTracker_new
    /\ chan = <<>>
    /\ rg_pc = "await"
    /\ result = [kind |-> "pending", value |-> NoValue]
    /\ call_log = <<>>
    /\ plan = "fused"
    /\ run2 = Run2Idle
    /\ build = BuildIdle
    /\ \E names \in [1..resolvers -> DepNames] :
          dep = [cache |-> StackMap_new,
                 fresh |-> <<>>,
                 calls |-> <<>>,
                 alive |-> TRUE,
                 res |-> [i \in 1..resolvers |-> Resolver(names[i])],
                 objects |-> 0,
                 runs |-> <<>>,
                 inserts |-> <<>>,
                 got |-> <<>>,
                 published |-> [k \in {} |-> Arc_new(0, "")],
                 released |-> <<>>]

CacheInit == CacheInitWith(NumResolvers)

\* if !_deps.contains(name).await { .. }
ResContains(i) ==
    /\ dep.res[i].pc = "contains"
    /\ LET found == StackMap_contains(CacheOf(dep.res[i].deps), dep.res[i].name)
       IN  dep' = [dep EXCEPT !.res[i].found = found,
                              !.res[i].had =
                                  StackMap_contains(dep.cache, dep.res[i].name),
                              !.res[i].pc = IF found THEN "get" ELSE "provider"]
    /\ UNCHANGED <<graph, tasks, bt, chan, rg_pc, result, call_log, plan, run2, build>>

\* name(_deps).await, up to its insert: the body of the provider runs and
\* makes a new object.
ResProvider(i) ==
    /\ dep.res[i].pc = "provider"
    /\ dep' = [dep EXCEPT
                 !.objects = @ + 1,
                 !.runs = Append(@, dep.res[i].name),
                 !.res[i].ran = TRUE,
                 !.res[i].value = <<Arc_new(dep.objects + 1,
                                            DepTypes[dep.res[i].name])>>,
                 !.res[i].pc = "insert"]
    /\ UNCHANGED <<graph, tasks, bt, chan, rg_pc, result, call_log, plan, run2, build>>

\* _deps.insert(name, value).await
ResInsert(i) ==
    /\ dep.res[i].pc = "insert"
    /\ LET name == dep.res[i].name
           value == dep.res[i].value[1]
           deps == dep.res[i].deps
       IN  dep' = [dep EXCEPT
                     !.cache = IF deps = 0 THEN StackMap_insert(@, name, value)
                               ELSE @,
                     !.fresh = IF deps = 0 THEN @
                               ELSE [@ EXCEPT ![deps] =
                                        StackMap_insert(@, name, value)],
                     !.inserts = Append(@, [name |-> name, value |-> value,
                                            deps |-> deps,
                                            call |-> dep.res[i].call]),
                     !.published = IF name \in DOMAIN @ \/ deps # 0 THEN @
                                   ELSE [k \in DOMAIN @ \cup {name} |->
                                           IF k = name THEN value ELSE @[k]],
                     !.res[i].value = <<>>,
                     !.res[i].pc = "get"]
    /\ UNCHANGED <<graph, tasks, bt, chan, rg_pc, result, call_log, plan, run2, build>>

\* let name = _deps.get::<T>(name).await.unwrap();
ResGet(i) ==
    /\ dep.res[i].pc = "get"
    /\ LET got == StackMap_get(CacheOf(dep.res[i].deps), dep.res[i].name,
                               DepTypes[dep.res[i].name])
       IN  dep' = [dep EXCEPT !.res[i].handle = got,
                              !.res[i].seen = Len(InsertsInto(dep.res[i].deps,
                                                              dep.res[i].name)),
                              !.res[i].pc = IF got = <<>> THEN "panicked"
                                                          ELSE "done"]
    /\ UNCHANGED <<graph, tasks, bt, chan, rg_pc, result, call_log, plan, run2, build>>

\* DependencyCache::get::<T>(key) called by any holder of the cache, with the
\* value that was stored under the key when the call was made.
CacheGet(key, typ) ==
    /\ dep.alive
    /\ dep' = [dep EXCEPT !.got =
                 <<[key |-> key, typ |-> typ,
                    stored |-> IF key \in DOMAIN dep.cache.map
                               THEN <<dep.cache.map[key]>> ELSE <<>>,
                    result |-> StackMap_get(dep.cache, key, typ)]>>]
    /\ UNCHANGED <<graph, tasks, bt, chan, rg_pc, result, call_log, plan, run2, build>>

\* The last task has let go of the cache: the StackMap is dropped.  What is
\* still in the map after Drop::drop goes with the HashMap, in no given order.
CacheDrop ==
    /\ dep.alive
    /\ \A i \in DOMAIN dep.res : dep.res[i].pc \in {"done", "panicked"}
    /\ LET d == StackMap_drop(dep.cache)
           rest == DOMAIN d.self.map
       IN  \E order \in [1..Cardinality(rest) -> rest] :
              /\ \A a, b \in DOMAIN order : order[a] = order[b] => a = b
              /\ dep' = [dep EXCEPT
                           !.alive = FALSE,
                           !.cache = [map |-> StackMap_new.map, stack |-> <<>>],
                           !.released = d.released \o
                                [j \in DOMAIN order |-> d.self.map[order[j]]]]
    /\ UNCHANGED <<graph, tasks, bt, chan, rg_pc, result, call_log, plan, run2, build>>

CacheNext ==
    \/ \E i \in DOMAIN dep.res : ResContains(i)
    \/ \E i \in DOMAIN dep.res : ResProvider(i)
    \/ \E i \in DOMAIN dep.res : ResInsert(i)
    \/ \E i \in DOMAIN dep.res : ResGet(i)
    \/ CacheDrop

CacheSpec == CacheInit /\ [][CacheNext]_vars

\* One of the holders of the cache calls get while the others resolve.
GetInit == CacheInitWith(NumResolvers - 1)

GetNext ==
    \/ CacheNext
    \/ \E key \in DepNames, typ \in Range(DepTypes) : CacheGet(key, typ)

GetSpec == GetInit /\ [][GetNext]_vars

\* The tasks that have resolved `name` with a check that found it present.
ResolvedAfter(name) ==
    { i \in DOMAIN dep.res : /\ dep.res[i].name = name
                             /\ dep.res[i].pc = "done"
                             /\ dep.res[i].found }

\* C12: once a value has been published under a name by an insert, every
\* task that resolves the name afterwards (its check finds the name present)
\* observes one and the same shared handle, that of the published value.
C12_SameHandleAfterPublish ==
    \A name \in DOMAIN dep.published :
        \A i \in ResolvedAfter(name) :
            /\ dep.res[i].handle = <<dep.published[name]>>
            /\ \A j \in ResolvedAfter(name) : dep.res[j].handle = dep.res[i].handle

\* C13: the body of a provider runs at most once per cache.
C13_ProviderRunsAtMostOnce ==
    \A name \in DepNames :
        Len(SelectSeq(dep.runs, LAMBDA n : n = name)) <= 1

\* C14: once a task has completed the resolution of a name, the cache
\* contains the name, and a name the cache contains stays in it in every
\* later state until the cache is destroyed.
C14_ContainsStable ==
    /\ [](\A i \in DOMAIN dep.res :
            (dep.alive /\ dep.res[i].pc = "done") =>
                StackMap_contains(dep.cache, dep.res[i].name))
    /\ [][\A name \in DepNames :
            (StackMap_contains(dep.cache, name) /\ dep'.alive) =>
                StackMap_contains(dep'.cache, name)]_vars

\* A task has resolved a name and the value under it was replaced afterwards.
C14_Witness ==
    /\ dep.alive
    /\ \E i \in DOMAIN dep.res :
          /\ dep.res[i].pc = "done"
          /\ dep.res[i].name \in Range(dep.cache.stack)
          /\ dep.res[i].handle # <<dep.cache.map[dep.res[i].name]>>

-----------------------------------------------------------------------------
(* Panics and cancellation                                                  *)

\* C15 as stated: run_graph returns recv-closed only if no task ever called
\* remove_branch.
C15_RecvClosedOnlyWithoutRemove ==
    result.kind = "RecvError" => RemoveCalls = <<>>

\* C15 amended: run_graph returns recv-closed only if the tracker was dropped
\* without sending: every task has ended, at least one of them by a panic, and
\* no remove_branch call has brought the count to zero (calls that left it
\* positive may have been made).
C15_RecvClosedOnlyUnsent ==
    result.kind = "RecvError" =>
        /\ chan = <<>>
        /\ ~bt.done /\ bt.sender
        /\ bt.num_branches >= 1
        /\ AllTasksEnded
        /\ Panicked # {}

\* recv-closed although a branch had reached its end and called remove_branch.
C15_Witness ==
    /\ result.kind = "RecvError"
    /\ RemoveCalls # <<>>

\* C16 as stated: after a panic in a node, run_graph never resolves, neither
\* with a value nor with an error.
C16_PanicAwaitsForever ==
    Panicked # {} => (rg_pc # "returned" /\ result.kind = "pending")

\* C16 amended: a task whose node panicked makes no tracker call and spawns
\* nothing, so its branch is never removed; but run_graph does not await
\* forever: once every task has returned or panicked the tracker is dropped
\* and the receiver resolves, with the value if one was sent and with
\* recv-closed otherwise.
C16_PanicClosesReceiver ==
    /\ \A i \in Panicked :
          /\ CallsBy(i, "add_branch") = <<>>
          /\ CallsBy(i, "remove_branch") = <<>>
          /\ ChildrenOf(i) = <<>>
    /\ (AllTasksEnded /\ Panicked # {} /\ rg_pc = "await") =>
          /\ ENABLED RunGraphReturn
          /\ chan = <<>> => (~bt.done /\ bt.num_branches >= 1)
    /\ (rg_pc = "returned" /\ Panicked # {}) =>
          \/ result.kind = "Ok" /\ chan = <<result.value>>
          \/ result.kind = "RecvError" /\ chan = <<>> /\ AllTasksEnded

\* One branch panicked, the others ended, and run_graph returned recv-closed.
C16_Witness ==
    /\ Panicked # {}
    /\ \E i \in DOMAIN tasks : Finished(i) /\ i \notin Panicked
    /\ AllTasksEnded
    /\ rg_pc = "returned"
    /\ result.kind = "RecvError"

\* C17: when the host has dropped the receiver before anything was sent, the
\* remove_branch call that brings the count to zero still sets done and takes
\* the sender; the send that fails delivers nothing and raises neither an
\* error nor a panic in the task, and every task still running can go on to
\* its end.
C17_DroppedReceiverIsHarmless ==
    rg_pc = "cancelled" =>
        /\ chan = <<>>
        /\ Panicked = {}
        /\ bt.num_branches <= 0 => (bt.done /\ ~bt.sender)
        /\ bt.done => ~bt.sender
        /\ \A i \in DOMAIN tasks : ~Finished(i) => ENABLED TaskStep(i)
        /\ AllTasksDone => bt.done

\* The last branch ended after the receiver was dropped, and tasks kept going
\* after the tracker was done.
C17_Witness ==
    /\ rg_pc = "cancelled"
    /\ AllTasksDone
    /\ bt.done /\ ~bt.sender
    /\ chan = <<>>
    /\ \E j \in DOMAIN call_log : call_log[j].done_before

-----------------------------------------------------------------------------
(* Two calls of run_graph on the same graph at the same time                *)

\* The graphs the two calls are made on.
TwoRunsGraphs == {"Single", "Parallel", "Branching", "ResultOkOnly"}

\* The argument of the second call: it marks every value derived from it.
second_node_args == Plain(<<"second call">>)

TwoRunsInit ==
    /\ graph \in TwoRunsGraphs
    /\ tasks = <<>>
    /\ bt = BranchTracker_new
    /\ chan = <<>>
    /\ rg_pc = "start"
    /\ result = [kind |-> "pending", value |-> NoValue]
    /\ call_log = <<>>
    /\ plan = "fused"
    /\ run2 = [Run2Idle EXCEPT !.rg_pc = "start"]
    /\ dep = DepIdle
    /\ build = BuildIdle

\* The second call: tokio::spawn of its start task.
RunGraphSpawn2 ==
    /\ run2.rg_pc = "start"
    /\ tasks' = Append(tasks, NewTask(TaskName_from(Graphs[graph].start),
                                      second_node_args, 0, run_graph_tracker(2)))
    /\ run2' = [run2 EXCEPT !.rg_pc = "await"]
    /\ UNCHANGED <<graph, plan, dep, build, bt, chan, rg_pc, result, call_log>>

SenderDropped2 ==
    /\ run2.rg_pc = "await"
    /\ \A i \in DOMAIN tasks : tasks[i].branchtracker = 2 => ~tasks[i].holds

\* The second call: receiver.await resolves.
RunGraphReturn2 ==
    /\ run2.rg_pc = "await"
    /\ run2.chan # <<>> \/ SenderDropped2
    /\ run2' = [run2 EXCEPT
                  !.rg_pc = "returned",
                  !.result = IF run2.chan # <<>>
                             THEN [kind |-> "Ok", value |-> run2.chan[1]]
                             ELSE [kind |-> "RecvError", value |-> NoValue]]
    /\ UNCHANGED <<graph, plan, dep, build, tasks, bt, chan, rg_pc, result, call_log>>

TwoRunsNext ==
    \/ Next
    \/ RunGraphSpawn2
    \/ RunGraphReturn2

TwoRunsSpec == TwoRunsInit /\ [][TwoRunsNext]_vars

\* The call a value was computed in, and the call a task belongs to: it
\* descends from that call's start task.
CallOfValue(v) ==
    IF v.path # <<>> /\ v.path[1] = second_node_args.path[1] THEN 2 ELSE 1

CallOf(t) == CallOfValue(t.node_args)

\* C18: two calls of run_graph that run at the same time have trackers of
\* their own: every task works on the tracker of the call it descends from, a
\* step of a task of one call leaves the tracker and the channel of the other
\* call as they are, and each call returns a value computed from its own
\* argument.
C18_CallsAreIndependent ==
    /\ [](/\ \A i \in DOMAIN tasks : tasks[i].branchtracker = CallOf(tasks[i])
          /\ \A j \in DOMAIN call_log :
                call_log[j].on = CallOf(tasks[call_log[j].by])
          /\ \A v \in Range(chan) : CallOfValue(v) = 1
          /\ \A v \in Range(run2.chan) : CallOfValue(v) = 2
          /\ rg_pc = "returned" => (result.kind = "Ok" /\ chan = <<result.value>>)
          /\ run2.rg_pc = "returned" =>
                (run2.result.kind = "Ok" /\ run2.chan = <<run2.result.value>>))
    /\ [][\A i \in DOMAIN tasks :
            tasks'[i] # tasks[i] =>
                IF CallOf(tasks[i]) = 1
                THEN run2' = run2
                ELSE bt' = bt /\ chan' = chan /\ rg_pc' = rg_pc /\ result' = result]_vars

\* Both calls have returned their own value, and tasks of the second call ran
\* while the first call had branches outstanding.
C18_Witness ==
    /\ rg_pc = "returned" /\ result.kind = "Ok"
    /\ run2.rg_pc = "returned" /\ run2.result.kind = "Ok"
    /\ result.value # run2.result.value
    /\ \E i, j \in DOMAIN tasks :
          /\ i < j
          /\ CallOf(tasks[i]) = 2
          /\ CallOf(tasks[j]) = 1
          /\ tasks[j].parent # 0

-----------------------------------------------------------------------------
(* graph!: from the statements of the DOT source to the generated impl      *)

NODE_TYPE_ATTR == "type"

NODE_BRANCH_ATTR == "branch"

NODE_START_ATTR == "start"

EDGE_VALUE_ATTR == "value"

NODE_BRANCH_MATCHER_VAL == "matcher"

NODE_BRANCH_RESULTMATCHER_VAL == "resultmatcher"

\* Statements as the parser hands them over.  An attribute is <<key, value>>;
\* a vertex is <<"N", id>> for a node id and <<"S", "">> for a subgraph.
GvNode(id, attributes) ==
    [stmt |-> "node", id |-> id, attributes |-> attributes, vertices |-> <<>>]

GvEdge(vertices, attributes) ==
    [stmt |-> "edge", id |-> "", attributes |-> attributes, vertices |-> vertices]

\* A statement that is neither a node nor an edge, such as rankdir=LR.
GvOther == [stmt |-> "attribute", id |-> "", attributes |-> <<>>, vertices |-> <<>>]

VertexN(id) == <<"N", id>>

VertexS == <<"S", "">>

\* The value of the first attribute with the key: <<value>>, or <<>>.
RECURSIVE find_attr(_, _)
find_attr(attributes, key) ==
    IF attributes = <<>> THEN <<>>
    ELSE IF Head(attributes)[1] = key THEN <<Head(attributes)[2]>>
    ELSE find_attr(Tail(attributes), key)

get_nodetype_from_gv_node(node) == find_attr(node.attributes, NODE_TYPE_ATTR)

is_start_node(node) == find_attr(node.attributes, NODE_START_ATTR) # <<>>

get_branch_value_from_node_attributes(attrs) ==
    LET found == find_attr(attrs, NODE_BRANCH_ATTR)
    IN  IF found = <<>> THEN "" ELSE found[1]

get_match_value_from_edge_attributes(attributes) ==
    LET found == find_attr(attributes, EDGE_VALUE_ATTR)
    IN  IF found = <<>> THEN "" ELSE found[1]

\* HashMap::insert: the entry of the key is added or replaced.
HashMap_insert(map, key, value) ==
    [k \in DOMAIN map \cup {key} |-> IF k = key THEN value ELSE map[k]]

\* A DOT text: its statements, and how they are laid out (white space, line
\* breaks), which a parser skips.
Layouts == {"one statement per line", "all on one line"}

Text(layout, stmts) == [layout |-> layout, stmts |-> stmts]

\* String::new()
String_new == Text("", <<>>)

\* graphviz_rust::parse: the statements of the text.
parse(raw_source) == raw_source.stmts

\* The text printed again from its statements.
String_reprinted(raw_source) ==
    Text("one statement per line", parse(raw_source))

\* raw_source.clone()
String_clone(raw_source) == raw_source

DescriptiveGraph_new ==
    [nodes |-> [k \in {} |-> Node(<<>>)],
     nodetype |-> [k \in {} |-> ""],
     start_node |-> "",
     source |-> String_new,
     failed |-> FALSE]

into_source(self) == self.source

\* #source in quote!: a string literal token, and the &'static str that the
\* compiler makes of it.
ToTokens_String(source) == [literal |-> source]

const_str(token) == token.literal

\* The resultmatcher arm is that of the node.rs task.rs is written against.
new_node(name, nodetype, branch) ==
    IF branch = NODE_BRANCH_MATCHER_VAL THEN MatcherNode(NoArms)
    ELSE IF branch = NODE_BRANCH_RESULTMATCHER_VAL THEN ResultMatcherNode(<<>>, <<>>)
    ELSE Node(<<>>)

add_node(self, name, nodetype, branch) ==
    [self EXCEPT !.nodes = HashMap_insert(@, name, new_node(name, nodetype, branch)),
                 !.nodetype = HashMap_insert(@, name, nodetype)]

\* The values of the edges under test, in lower case.
to_lowercase(value) ==
    CASE value = "OK" -> "ok"
      [] value = "Err" -> "err"
      [] OTHER -> value

\* A result matcher files the destination under ok or err; <<>> when the
\* value is neither.
ResultMatcherNode_add_destination(node, value, destination) ==
    CASE to_lowercase(value) = "ok" -> <<[node EXCEPT !.ok = Append(@, destination)]>>
      [] to_lowercase(value) = "err" -> <<[node EXCEPT !.err = Append(@, destination)]>>
      [] OTHER -> <<>>

Nodes_add_destination(node, value, destination) ==
    CASE node.branch = "parallel" ->
            <<[node EXCEPT !.destinations = Append(@, destination)]>>
      [] node.branch = "matcher" ->
            <<[node EXCEPT !.arms = HashMap_insert(@, value, destination)]>>
      [] OTHER -> ResultMatcherNode_add_destination(node, value, destination)

\* add_edge that fails the build for an edge from an unknown source.
add_edge_checked(self, source, destination, value) ==
    IF source \in DOMAIN self.nodes
    THEN LET node == Nodes_add_destination(self.nodes[source], value, destination)
         IN  IF node = <<>> THEN [self EXCEPT !.failed = TRUE]
             ELSE [self EXCEPT !.nodes[source] = node[1]]
    ELSE [self EXCEPT !.failed = TRUE]

\* The destination is not looked up; an edge from an unknown source is let go.
add_edge(self, source, destination, value) ==
    IF source \in DOMAIN self.nodes
    THEN LET node == Nodes_add_destination(self.nodes[source], value, destination)
         IN  IF node = <<>> THEN [self EXCEPT !.failed = TRUE]
             ELSE [self EXCEPT !.nodes[source] = node[1]]
    ELSE self

process_edge_pair(self, src, dest, attrs) ==
    LET matcher_value == get_match_value_from_edge_attributes(attrs)
    IN  IF src[1] = "N" /\ dest[1] = "N"
        THEN add_edge(self, src[2], dest[2], matcher_value)
        ELSE self

RECURSIVE process_edge_chain_loop(_, _, _, _)
process_edge_chain_loop(self, vertices, attrs, i) ==
    IF i > Len(vertices) - 1 THEN self
    ELSE process_edge_chain_loop(
            process_edge_pair(self, vertices[i], vertices[i + 1], attrs),
            vertices, attrs, i + 1)

\* process_edge_chain whose loop stops one pair short.
process_edge_chain_short(self, vertices, attrs) ==
    process_edge_chain_loop(self, SubSeq(vertices, 1, Len(vertices) - 1), attrs, 1)

process_edge_chain(self, vertices, attrs) ==
    process_edge_chain_loop(self, vertices, attrs, 1)

process_edge(self, edge) ==
    IF Len(edge.vertices) = 2
    THEN process_edge_pair(self, edge.vertices[1], edge.vertices[2], edge.attributes)
    ELSE process_edge_chain(self, edge.vertices, edge.attributes)

process_node(self, node) ==
    LET nodetype == get_nodetype_from_gv_node(node)
    IN  IF nodetype # <<>>
        THEN LET node_id == node.id
                 branch == get_branch_value_from_node_attributes(node.attributes)
                 added == add_node(self, node_id, nodetype[1], branch)
             IN  IF is_start_node(node)
                 THEN [added EXCEPT !.start_node = node_id]
                 ELSE added
        ELSE self

process_statement(self, statement) ==
    CASE statement.stmt = "node" -> process_node(self, statement)
      [] statement.stmt = "edge" -> process_edge(self, statement)
      [] OTHER -> self

get_start_node(self) ==
    IF self.start_node \in DOMAIN self.nodes
    THEN <<self.nodes[self.start_node]>>
    ELSE <<>>

\* How collect_nodes_for_task ends for the task that starts at this_node: it
\* returns, it unwraps the None of a successor that is not in the map, or it
\* recurses without end around a cycle of single-successor parallel nodes.
RECURSIVE collect_nodes_for_task_ends(_, _, _)
collect_nodes_for_task_ends(this_node, graph_nodes_map, depth) ==
    LET dest == get_destinations(graph_nodes_map[this_node])
    IN  IF /\ graph_nodes_map[this_node].branch = "parallel"
           /\ dest.kind = "Parallel"
           /\ Len(dest.branches) = 1
        THEN IF dest.branches[1] \notin DOMAIN graph_nodes_map
             THEN "panic: called Option::unwrap() on a None value"
             ELSE IF depth > Cardinality(DOMAIN graph_nodes_map)
                  THEN "stack overflow"
                  ELSE collect_nodes_for_task_ends(dest.branches[1],
                                                   graph_nodes_map, depth + 1)
        ELSE "returns"

\* The methods Self::execute_.. that the code of a task names.
SpawnedNames(tokens) ==
    LET names(block) == { block[j].task : j \in { q \in DOMAIN block :
                                                    block[q].op = "spawn" } }
    IN  names(tokens.block) \cup names(tokens.ok_block) \cup names(tokens.err_block)
            \cup UNION { names(tokens.arms[j].body) : j \in DOMAIN tokens.arms }

\* rustc on the generated impl: the methods named but not defined.
UnresolvedMethods(generated) ==
    UNION { SpawnedNames(Spawn_to_tokens(t.spawn)) : t \in generated }
        \ { t.name : t \in generated }

\* The ways ExecutableGraph::from and the compilation of its output can end.
ExecutableGraph_from(dgraph) ==
    IF dgraph.failed
    THEN {"panic: edge value of a result matcher is neither ok nor err"}
    ELSE IF get_start_node(dgraph) = <<>>
    THEN {"panic: No starting node found!  Give one node the attribute 'start'."}
    ELSE LET ends == { collect_nodes_for_task_ends(n, dgraph.nodes, 1) :
                          n \in DOMAIN dgraph.nodes }
         IN  IF ends # {"returns"} THEN ends \ {"returns"}
             ELSE IF UnresolvedMethods(build_tasks(dgraph.nodes)) # {}
                  THEN {"rustc: no function or associated item found"}
                  ELSE {"ok"}

\* The statements graph! is tried on.
NodeIds == {"a", "b"}

NodeAttributes ==
    { <<<<"type", "T">>>>,
      <<<<"type", "T">>, <<"start", "true">>>>,
      <<<<"type", "T">>, <<"branch", "matcher">>, <<"start", "true">>>>,
      <<<<"type", "T">>, <<"branch", "resultmatcher">>, <<"start", "true">>>>,
      <<<<"start", "true">>>> }

Statements ==
    { GvNode(id, attrs) : id \in NodeIds, attrs \in NodeAttributes }
        \cup { GvEdge(<<VertexN("a"), VertexN("b")>>, <<>>),
               GvEdge(<<VertexN("a"), VertexN("zz")>>, <<>>),
               GvEdge(<<VertexN("a"), VertexN("zz")>>, <<<<"value", "OK">>>>),
               GvEdge(<<VertexN("b"), VertexN("a")>>, <<>>),
               GvEdge(<<VertexN("a"), VertexN("a")>>, <<>>),
               GvEdge(<<VertexN("a"), VertexN("b"), VertexN("zz")>>, <<>>),
               GvEdge(<<VertexN("a"), VertexN("b"), VertexN("a")>>,
                      <<<<"value", "OK">>>>),
               GvEdge(<<VertexN("a"), VertexS>>, <<>>),
               GvOther }

StatementLists == UNION { [1..n -> Statements] : n \in 0..MaxStmts }

BuildInit ==
    /\ graph = "Single"
    /\ tasks = <<>>
    /\ bt = BranchTracker_new
    /\ chan = <<>>
    /\ rg_pc = "await"
    /\ result = [kind |-> "pending", value |-> NoValue]
    /\ call_log = <<>>
    /\ plan = "fused"
    /\ run2 = Run2Idle
    /\ dep = DepIdle
    /\ \E stmts \in StatementLists, layout \in Layouts :
          LET raw_source == Text(layout, stmts)
          IN  build = [raw_source |-> raw_source,
                       input |-> parse(raw_source),
                       stmts |-> parse(raw_source),
                       graph |-> [DescriptiveGraph_new EXCEPT
                                    !.source = String_clone(raw_source)],
                       outcome |-> "parsing",
                       generated |-> {},
                       SOURCE |-> String_new]

\* process_graph: the next statement of the source.
ProcessStatement ==
    /\ build.outcome = "parsing"
    /\ build.stmts # <<>>
    /\ build' = [build EXCEPT
                   !.graph = process_statement(build.graph, Head(build.stmts)),
                   !.stmts = Tail(build.stmts)]
    /\ UNCHANGED <<graph, tasks, bt, chan, rg_pc, result, call_log, plan, run2, dep>>

\* ExecutableGraph::from(graph), and the compilation of the tokens it gives.
Expand ==
    /\ build.outcome = "parsing"
    /\ build.stmts = <<>>
    /\ LET dgraph == build.graph
           lowered == {"ok", "rustc: no function or associated item found"}
       IN  \E outcome \in ExecutableGraph_from(dgraph) :
              build' = [build EXCEPT
                 !.outcome = outcome,
                 !.generated = IF outcome \in lowered
                               THEN build_tasks(dgraph.nodes) ELSE {},
                 !.SOURCE = IF outcome \in lowered
                            THEN const_str(ToTokens_String(into_source(dgraph)))
                            ELSE String_new]
    /\ UNCHANGED <<graph, tasks, bt, chan, rg_pc, result, call_log, plan, run2, dep>>

BuildNext ==
    \/ ProcessStatement
    \/ Expand

BuildSpec == BuildInit /\ [][BuildNext]_vars

\* The node statements of the source that declare a node (they have a type).
DeclaredNodes(stmts) ==
    { stmts[j].id : j \in { q \in DOMAIN stmts :
                              /\ stmts[q].stmt = "node"
                              /\ get_nodetype_from_gv_node(stmts[q]) # <<>> } }

\* The declared nodes that carry the start attribute.
StartNodes(stmts) ==
    { stmts[j].id : j \in { q \in DOMAIN stmts :
                              /\ stmts[q].stmt = "node"
                              /\ get_nodetype_from_gv_node(stmts[q]) # <<>>
                              /\ is_start_node(stmts[q]) } }

\* The edges a -> b of the source between node ids, chains taken pair by pair.
EdgesOf(stmts) ==
    UNION { { <<stmts[j].vertices[i][2], stmts[j].vertices[i + 1][2]>> :
                i \in { q \in 1..(Len(stmts[j].vertices) - 1) :
                          /\ stmts[j].vertices[q][1] = "N"
                          /\ stmts[j].vertices[q + 1][1] = "N" } } :
            j \in { q \in DOMAIN stmts : stmts[q].stmt = "edge" } }

\* C19: the build succeeds only when exactly one node carries the start
\* attribute, and then starts the graph at that node; with no such node, and
\* with two or more, it fails.
C19_StartUniqueness ==
    build.outcome # "parsing" =>
        LET starts == StartNodes(build.input)
        IN  /\ Cardinality(starts) # 1 => build.outcome # "ok"
            /\ build.outcome = "ok" => starts = {build.graph.start_node}

\* C20: a source with an edge from a declared node to a destination that is
\* not a declared node does not build, whatever the branch mode of the source
\* node and the number of its successors.
C20_DanglingEdgeFails ==
    build.outcome # "parsing" =>
        ( (\E e \in EdgesOf(build.input) :
              /\ e[1] \in DeclaredNodes(build.input)
              /\ e[2] \notin DeclaredNodes(build.input))
          => build.outcome # "ok" )

\* The ids that more than one node statement of the source declares.
DuplicateIds(stmts) ==
    { stmts[j].id : j \in { q \in DOMAIN stmts :
          /\ stmts[q].stmt = "node"
          /\ get_nodetype_from_gv_node(stmts[q]) # <<>>
          /\ \E r \in DOMAIN stmts :
                /\ r # q
                /\ stmts[r].stmt = "node"
                /\ get_nodetype_from_gv_node(stmts[r]) # <<>>
                /\ stmts[r].id = stmts[q].id } }

\* C21: a source that declares two nodes with the same id does not build; a
\* later declaration never silently takes the place of an earlier one.
C21_DuplicateIdFails ==
    (build.outcome # "parsing" /\ DuplicateIds(build.input) # {}) =>
        build.outcome # "ok"

-----------------------------------------------------------------------------
(* Release order of the cache                                               *)

\* The names of the inserts made so far, in the order they were made.
InsertedNames == [j \in DOMAIN dep.inserts |-> dep.inserts[j].name]

\* The values of the inserts made so far, last insert first.
InsertedValuesReversed ==
    [j \in DOMAIN dep.inserts |->
        dep.inserts[Len(dep.inserts) + 1 - j].value]

DistinctNames(names) ==
    \A a, b \in DOMAIN names : names[a] = names[b] => a = b

\* C22: when the names inserted were all distinct, the destruction of the
\* cache releases the stored values in the reverse of their insertion order.
C22_ReleasedInReverseOrder ==
    (~dep.alive /\ DistinctNames(InsertedNames)) =>
        dep.released = InsertedValuesReversed

-----------------------------------------------------------------------------
(* get                                                                      *)

\* C23: get::<T>(name) returns none when the name is absent, none when the
\* value stored under it is not a T, and the stored handle otherwise; no get
\* changes the map or the release list of the cache.
C23_GetIsPureLookup ==
    /\ [](\A j \in DOMAIN dep.got :
            dep.got[j].result =
                IF dep.got[j].stored = <<>> THEN <<>>
                ELSE IF dep.got[j].stored[1].type # dep.got[j].typ THEN <<>>
                ELSE dep.got[j].stored)
    /\ [][(\/ dep'.got # dep.got
           \/ \E i \in DOMAIN dep.res :
                 dep.res[i].pc = "get" /\ dep'.res[i].pc # "get") =>
              /\ dep'.cache.map = dep.cache.map
              /\ dep'.cache.stack = dep.cache.stack]_vars

\* A get for a type other than the stored one came back empty, on a cache
\* whose release list is not empty.
C23_Witness ==
    /\ dep.alive
    /\ dep.cache.stack # <<>>
    /\ \E j \in DOMAIN dep.got :
          /\ dep.got[j].stored # <<>>
          /\ dep.got[j].stored[1].type # dep.got[j].typ
          /\ dep.got[j].result = <<>>
          /\ dep.cache.map[dep.got[j].key] = dep.got[j].stored[1]

-----------------------------------------------------------------------------
(* Two first users of one provider                                          *)

-----------------------------------------------------------------------------
(* The cache of an invocation                                               *)

MaxInvocations == 2

\* let deps = match dependency_cache { Some(deps) => deps,
\*                                     None => Arc::new(DependencyCache::new()) };
\* `dependency_cache` is <<c>> for Some(c) and <<>> for None; `made` is the
\* number of caches run_graph has made so far.
run_graph_deps_new(dependency_cache, made) == made + 1

run_graph_deps(dependency_cache, made) ==
    IF dependency_cache # <<>> THEN dependency_cache[1] ELSE made + 1

\* What a spawn block hands on: deps, or Arc::clone(&deps).
create_spawn_block_deps(deps) == deps

InvocationsInit ==
    /\ graph = "Branching"
    /\ tasks = <<>>
    /\ bt = BranchTracker_new
    /\ chan = <<>>
    /\ rg_pc = "await"
    /\ result = [kind |-> "pending", value |-> NoValue]
    /\ call_log = <<>>
    /\ plan = "fused"
    /\ run2 = Run2Idle
    /\ build = BuildIdle
    /\ dep = [cache |-> StackMap_new,
              fresh |-> <<>>,
              calls |-> <<>>,
              alive |-> TRUE,
              res |-> <<>>,
              objects |-> 0,
              runs |-> <<>>,
              inserts |-> <<>>,
              got |-> <<>>,
              published |-> [k \in {} |-> Arc_new(0, "")],
              released |-> <<>>]

\* run_graph(first_node_args, dependency_cache) up to the spawn of the task
\* of the start node, whose nodetype names the dependency `name`.
RunGraphCall(dependency_cache, name) ==
    /\ Len(dep.calls) < MaxInvocations
    /\ LET deps == run_graph_deps(dependency_cache, Len(dep.fresh))
           call == Len(dep.calls) + 1
       IN  dep' = [dep EXCEPT
                     !.fresh = IF dependency_cache = <<>>
                               THEN Append(@, StackMap_new) ELSE @,
                     !.calls = Append(@, [dependency_cache |-> dependency_cache,
                                          deps |-> deps]),
                     !.res = Append(@, NewResolver(name,
                                       create_spawn_block_deps(deps), call))]
    /\ UNCHANGED <<graph, tasks, bt, chan, rg_pc, result, call_log, plan, run2, build>>

\* The spawn block of the task of the start node, a matcher whose arms are
\* terminating nodes: the task of the chosen arm starts with the parent's
\* deps and names the same dependency.
ResSpawn(i) ==
    /\ dep.res[i].pc = "done"
    /\ ~dep.res[i].spawned
    /\ \A j \in DOMAIN dep.res : dep.res[j].call = dep.res[i].call => j >= i
    /\ dep' = [dep EXCEPT
                 !.res = Append([@ EXCEPT ![i].spawned = TRUE],
                                NewResolver(dep.res[i].name,
                                    create_spawn_block_deps(dep.res[i].deps),
                                    dep.res[i].call))]
    /\ UNCHANGED <<graph, tasks, bt, chan, rg_pc, result, call_log, plan, run2, build>>

InvocationsNext ==
    \/ \E name \in DepNames : RunGraphCall(<<0>>, name)
    \/ \E name \in DepNames : RunGraphCall(<<>>, name)
    \/ \E i \in DOMAIN dep.res : ResSpawn(i)
    \/ \E i \in DOMAIN dep.res : ResContains(i)
    \/ \E i \in DOMAIN dep.res : ResProvider(i)
    \/ \E i \in DOMAIN dep.res : ResInsert(i)
    \/ \E i \in DOMAIN dep.res : ResGet(i)

InvocationsSpec == InvocationsInit /\ [][InvocationsNext]_vars

\* C30: an invocation given Some(cache) runs all its tasks on that cache, so
\* a task that checks a name the cache already holds finds it and does not
\* run the provider; an invocation given None runs all its tasks on a cache
\* of its own that starts empty and that no other invocation uses.
C30_CacheOfInvocation ==
    /\ \A i \in DOMAIN dep.res :
          LET call == dep.calls[dep.res[i].call]
          IN  /\ dep.res[i].deps = call.deps
              /\ call.dependency_cache # <<>> =>
                    /\ dep.res[i].deps = call.dependency_cache[1]
                    /\ (dep.res[i].pc # "contains" /\ dep.res[i].had) =>
                           (dep.res[i].found /\ ~dep.res[i].ran)
    /\ \A c \in DOMAIN dep.calls :
          dep.calls[c].dependency_cache = <<>> =>
              /\ dep.calls[c].deps \in DOMAIN dep.fresh
              /\ \A d \in DOMAIN dep.calls : dep.calls[d].deps = dep.calls[c].deps => d = c
              /\ \A name \in DOMAIN dep.fresh[dep.calls[c].deps].map :
                    \E j \in DOMAIN dep.inserts :
                        /\ dep.inserts[j].name = name
                        /\ dep.inserts[j].deps = dep.calls[c].deps
                        /\ dep.inserts[j].call = c

\* The first invocation stored a dependency in the host's cache; the second
\* invocation was given the same cache, found the dependency and took the
\* stored handle without running the provider.
C30_Witness ==
    \E i, j \in DOMAIN dep.res :
        /\ dep.res[i].call = 1 /\ dep.res[j].call = 2
        /\ dep.calls[1].dependency_cache = <<0>>
        /\ dep.calls[2].dependency_cache = <<0>>
        /\ dep.res[i].ran /\ dep.res[i].pc = "done"
        /\ dep.res[j].pc = "done" /\ dep.res[j].found /\ ~dep.res[j].ran
        /\ dep.res[j].handle = dep.res[i].handle

-----------------------------------------------------------------------------
(* The generated graph object                                               *)

TasksStartingAt(n) ==
    { t \in build.generated : t.name = TaskName_from(n) /\ t.invocation[1] = n }

\* C25: lowering yields exactly one task per node of the graph, named after
\* the node and starting with it, also for a node that is fused into the
\* chain of another task; there are no other tasks.
C25_OneTaskPerNode ==
    build.outcome \in {"ok", "rustc: no function or associated item found"} =>
        /\ \A n \in DOMAIN build.graph.nodes :
              Cardinality(TasksStartingAt(n)) = 1
        /\ Cardinality(build.generated) = Cardinality(DOMAIN build.graph.nodes)

\* A node is the second node of the chain of one task and the first node of
\* its own task.
C25_Witness ==
    /\ build.outcome = "ok"
    /\ \E t \in build.generated :
          /\ Len(t.invocation) >= 2
          /\ TasksStartingAt(t.invocation[2]) # {}
          /\ t \notin TasksStartingAt(t.invocation[2])

\* C26: lowering terminates for every graph, also for one with a cycle of
\* parallel nodes that have one successor each.
C26_LoweringTerminates ==
    build.outcome # "stack overflow"

-----------------------------------------------------------------------------
(* The spawn step of a parallel node                                        *)

\* The number of add_branch calls of task i in a call log.
AddsBy(log, i) ==
    Len(SelectSeq(log, LAMBDA c : c.by = i /\ c.op = "add_branch"))

\* C27: a task whose last node is parallel with n successors calls add_branch
\* n - 1 times: not before its first spawn, and once before each further
\* spawn; every such call made while the tracker is not done raises the count
\* by one.
C27_ParallelAddsBranches ==
    /\ [](\A i \in DOMAIN tasks :
            LastNodeOf(i).branch = "parallel" =>
                LET n == Len(LastNodeOf(i).destinations)
                    k == Len(ChildrenOf(i))
                    a == AddsBy(call_log, i)
                IN  /\ k = 0 => a = 0
                    /\ k >= 1 => a \in {k - 1, k}
                    /\ n >= 1 => a <= n - 1
                    /\ k <= n
                    /\ (Finished(i) /\ n >= 1) => (a = n - 1 /\ k = n))
    /\ [][\A i \in DOMAIN tasks :
            (/\ LastNodeOf(i).branch = "parallel"
             /\ AddsBy(call_log', i) = AddsBy(call_log, i) + 1
             /\ ~bt.done) =>
                bt'.num_branches = bt.num_branches + 1]_vars

\* A parallel node with three successors has spawned them all, with two
\* add_branch calls that both found the tracker not done.
C27_Witness ==
    \E i \in DOMAIN tasks :
        /\ LastNodeOf(i).branch = "parallel"
        /\ Len(LastNodeOf(i).destinations) = 3
        /\ Finished(i)
        /\ Len(ChildrenOf(i)) = 3
        /\ AddsBy(call_log, i) = 2
        /\ \A j \in DOMAIN call_log :
              (call_log[j].by = i /\ call_log[j].op = "add_branch") =>
                  ~call_log[j].done_before

\* C28: no task calls remove_branch on a tracker that has already sent its
\* value.
C28_NoRemoveAfterSend ==
    \A j \in DOMAIN call_log :
        call_log[j].op = "remove_branch" => call_log[j].sent_before = 0

-----------------------------------------------------------------------------
(* Invariants of the tracker                                                *)

\* C33: in every tracker state the count is at least 0, and at least 1 while
\* the tracker is not done; the call that sets done leaves the count at 0.
C33_CountInvariant ==
    /\ [](/\ bt.num_branches >= 0
          /\ ~bt.done => bt.num_branches >= 1)
    /\ [][(~bt.done /\ bt'.done) => bt'.num_branches = 0]_vars

\* The count went up to 2 and two remove_branch calls took it down to 0.
C33_Witness ==
    /\ bt.done
    /\ bt.num_branches = 0
    /\ \E j \in DOMAIN call_log :
          call_log[j].op = "add_branch" /\ ~call_log[j].done_before
    /\ \E j, k \in DOMAIN call_log :
          /\ j < k
          /\ call_log[j].op = "remove_branch" /\ ~call_log[j].done_before
          /\ call_log[k].op = "remove_branch" /\ ~call_log[k].done_before

\* C34: in every tracker state done is set exactly when the sender has been
\* taken.
C34_DoneIffSenderTaken ==
    bt.done <=> ~bt.sender

\* A remove_branch call has returned and the tracker is not done: the sender
\* is still there.
C34_Witness ==
    /\ ~bt.done
    /\ bt.sender
    /\ chan = <<>>
    /\ \E j \in DOMAIN call_log : call_log[j].op = "remove_branch"

-----------------------------------------------------------------------------
(* The end of a task body                                                   *)

\* C35: a task body that has returned either spawned at least one successor
\* and never called remove_branch, or spawned none and called remove_branch
\* exactly once; and no task calls remove_branch after a spawn or twice.
C35_SpawnOrRemove ==
    \A i \in DOMAIN tasks :
        LET k == Len(ChildrenOf(i))
            r == Len(CallsBy(i, "remove_branch"))
        IN  /\ r <= 1
            /\ r = 1 => k = 0
            /\ Finished(i) => (k >= 1 /\ r = 0) \/ (k = 0 /\ r = 1)

\* All tasks of a run have returned; one whose node is a matcher or a result
\* matcher with successors spawned none and called remove_branch once.
C35_Witness ==
    /\ AllTasksDone
    /\ tasks # <<>>
    /\ \E i \in DOMAIN tasks :
          /\ LastNodeOf(i).branch # "parallel"
          /\ get_destinations(LastNodeOf(i)) # get_destinations(Node(<<>>))
          /\ Spawn_from_nodes(TaskOf(graph, tasks[i].name).invocation,
                              Graphs[graph].nodes).kind # "SpawnNone"
          /\ Len(ChildrenOf(i)) = 0
          /\ Len(CallsBy(i, "remove_branch")) = 1

\* Task i ended a branch: its last node has no successor for what it
\* returned, and `output` is the payload of that return.
EndedBranch(i) ==
    LET node == LastNodeOf(i)
        t == tasks[i]
    IN  /\ Len(ChildrenOf(i)) = 0
        /\ CASE node.branch = "parallel" ->
                    node.destinations = <<>> /\ t.output = t.returned
             [] node.branch = "matcher" ->
                    KeyTarget(node, t.value) = {} /\ t.output = t.returned
             [] OTHER ->
                    IF node.ok = <<>> /\ node.err = <<>>
                    THEN t.output = t.returned
                    ELSE /\ (IF t.returned.tag = "Ok" THEN node.ok ELSE node.err) = <<>>
                         /\ t.output = Plain(t.returned.path)

\* C36: the value run_graph delivers is the payload of a task that ended a
\* branch, passed by that task to remove_branch; it is never the output of a
\* task that spawned a successor.
C36_DeliveredFromEndedBranch ==
    /\ result.kind = "Ok" => chan = <<result.value>>
    /\ chan # <<>> =>
          /\ \E j \in DOMAIN call_log :
                /\ call_log[j].op = "remove_branch"
                /\ call_log[j].arg = chan[1]
                /\ tasks[call_log[j].by].output = chan[1]
                /\ EndedBranch(call_log[j].by)
          /\ \A i \in DOMAIN tasks :
                Len(ChildrenOf(i)) >= 1 =>
                    (tasks[i].output # chan[1] /\ tasks[i].returned # chan[1])

\* run_graph returned the content of the Err of a result matcher that has
\* successors for Ok only, after all tasks have returned.
C36_Witness ==
    /\ result.kind = "Ok"
    /\ AllTasksDone
    /\ \E i \in DOMAIN tasks :
          /\ LastNodeOf(i).branch \notin {"parallel", "matcher"}
          /\ LastNodeOf(i).ok # <<>>
          /\ tasks[i].returned.tag = "Err"
          /\ result.value = Plain(tasks[i].returned.path)

-----------------------------------------------------------------------------
(* Resolutions one after the other                                          *)

\* No task other than i is between its contains and the end of its get.
NoneOverlaps(i) ==
    \A j \in DOMAIN dep.res :
        j # i => dep.res[j].pc \in {"contains", "done", "panicked"}

\* The tasks resolve on one cache one at a time, as the nodes of a chain or
\* of a loop do.
SequentialNext ==
    \/ \E i \in DOMAIN dep.res : NoneOverlaps(i) /\ ResContains(i)
    \/ \E i \in DOMAIN dep.res : NoneOverlaps(i) /\ ResProvider(i)
    \/ \E i \in DOMAIN dep.res : NoneOverlaps(i) /\ ResInsert(i)
    \/ \E i \in DOMAIN dep.res : NoneOverlaps(i) /\ ResGet(i)
    \/ CacheDrop

SequentialSpec == CacheInit /\ [][SequentialNext]_vars

\* C37: when the resolutions of a name on one cache do not overlap, the
\* provider body runs exactly once, for the first of them, and every
\* resolution returns the same handle.
C37_SequentialResolvesOnce ==
    \A name \in DepNames :
        LET started == { i \in DOMAIN dep.res :
                            dep.res[i].name = name /\ dep.res[i].pc # "contains" }
            finished == { i \in started : dep.res[i].pc = "done" }
            ran == Len(SelectSeq(dep.runs, LAMBDA n : n = name))
        IN  /\ ran <= 1
            /\ \A i \in started : dep.res[i].pc # "panicked"
            /\ \A i \in started : dep.res[i].pc \notin {"provider"} => ran = 1
            /\ \A i, j \in finished :
                  /\ dep.res[i].handle # <<>>
                  /\ dep.res[i].handle = dep.res[j].handle

\* Three tasks have resolved the same name one after the other: the first ran
\* the provider, the others found the name and got the first one's handle.
C37_Witness ==
    \E i, j, k \in DOMAIN dep.res :
        /\ i # j /\ j # k /\ i # k
        /\ dep.res[i].name = dep.res[j].name /\ dep.res[j].name = dep.res[k].name
        /\ dep.res[i].pc = "done" /\ dep.res[j].pc = "done" /\ dep.res[k].pc = "done"
        /\ dep.res[i].ran /\ dep.res[j].found /\ dep.res[k].found
        /\ dep.res[j].handle = dep.res[i].handle
        /\ dep.res[k].handle = dep.res[i].handle
        /\ dep.runs = <<dep.res[i].name>>

-----------------------------------------------------------------------------
(* Edges of the source                                                      *)

\* The statements of the source that have been processed.
Processed == SubSeq(build.input, 1, Len(build.input) - Len(build.stmts))

\* The step processes the statement at the head of build.stmts.
ProcessesHead ==
    /\ build.outcome = "parsing"
    /\ build.stmts # <<>>
    /\ build'.stmts = Tail(build.stmts)

\* The matcher nodes, declared once, for which two later pair edges of the
\* source to different nodes carry the same value (two defaults when neither
\* carries one).
RepeatedArms(stmts) ==
    { stmts[d].id : d \in { q \in DOMAIN stmts :
        /\ stmts[q].stmt = "node"
        /\ get_nodetype_from_gv_node(stmts[q]) # <<>>
        /\ get_branch_value_from_node_attributes(stmts[q].attributes)
              = NODE_BRANCH_MATCHER_VAL
        /\ stmts[q].id \notin DuplicateIds(stmts)
        /\ \E j, k \in DOMAIN stmts :
              /\ q < j /\ j < k
              /\ stmts[j].stmt = "edge" /\ stmts[k].stmt = "edge"
              /\ Len(stmts[j].vertices) = 2 /\ Len(stmts[k].vertices) = 2
              /\ stmts[j].vertices[1] = VertexN(stmts[q].id)
              /\ stmts[k].vertices[1] = VertexN(stmts[q].id)
              /\ stmts[j].vertices[2][1] = "N" /\ stmts[k].vertices[2][1] = "N"
              /\ stmts[j].vertices[2] # stmts[k].vertices[2]
              /\ get_match_value_from_edge_attributes(stmts[j].attributes)
                    = get_match_value_from_edge_attributes(stmts[k].attributes) } }

\* C31: a source that gives a matcher node two edges without a value, or two
\* edges with the same value, does not build.
C31_RepeatedArmFails ==
    (build.outcome # "parsing" /\ RepeatedArms(build.input) # {}) =>
        build.outcome # "ok"

\* C32: a chain edge a -> b -> c [attrs] changes the graph exactly as the
\* pair edges a -> b [attrs] and b -> c [attrs] do, in that order; a pair
\* edge with an endpoint that is not a node id changes nothing.
C32_ChainIsPairs ==
    [][(ProcessesHead /\ Head(build.stmts).stmt = "edge") =>
          LET edge == Head(build.stmts)
              v == edge.vertices
          IN  /\ Len(v) = 3 =>
                    build'.graph =
                        process_statement(
                            process_statement(build.graph,
                                GvEdge(<<v[1], v[2]>>, edge.attributes)),
                            GvEdge(<<v[2], v[3]>>, edge.attributes))
              /\ (Len(v) = 2 /\ (v[1][1] # "N" \/ v[2][1] # "N")) =>
                    build'.graph = build.graph]_vars

\* The last statement processed was a chain of three node ids, and both of
\* its pairs are successor records of the graph.
C32_Witness ==
    /\ Processed # <<>>
    /\ LET edge == Processed[Len(Processed)]
           v == edge.vertices
       IN  /\ edge.stmt = "edge"
           /\ Len(v) = 3
           /\ v[1][2] \in DOMAIN build.graph.nodes
           /\ v[2][2] \in DOMAIN build.graph.nodes
           /\ v[1][2] # v[2][2]
           /\ build.graph.nodes[v[1][2]].branch = "parallel"
           /\ build.graph.nodes[v[2][2]].branch = "parallel"
           /\ build.graph.nodes[v[1][2]].destinations = <<v[2][2]>>
           /\ build.graph.nodes[v[2][2]].destinations = <<v[3][2]>>

\* C38: the nodes of the graph are the ids declared with a type by the
\* statements processed so far; a pair edge whose source is not among them
\* leaves the graph as it is and raises no error, and one whose source is a
\* parallel node among them appends its destination to the node's successors.
C38_EdgeNeedsEarlierSource ==
    /\ [](build.outcome = "parsing" =>
            DOMAIN build.graph.nodes = DeclaredNodes(Processed))
    /\ [][(/\ ProcessesHead
           /\ Head(build.stmts).stmt = "edge"
           /\ Len(Head(build.stmts).vertices) = 2
           /\ Head(build.stmts).vertices[1][1] = "N"
           /\ Head(build.stmts).vertices[2][1] = "N") =>
              LET src == Head(build.stmts).vertices[1][2]
                  dest == Head(build.stmts).vertices[2][2]
              IN  IF src \notin DeclaredNodes(Processed)
                  THEN build'.graph = build.graph
                  ELSE build.graph.nodes[src].branch = "parallel" =>
                          /\ build'.graph.nodes[src].destinations =
                                Append(build.graph.nodes[src].destinations, dest)
                          /\ build'.graph.failed = build.graph.failed]_vars

\* A source whose edge a -> b comes before the declaration of a was built,
\* and a has no successor in the graph.
C38_Witness ==
    /\ build.outcome = "ok"
    /\ \E j, d \in DOMAIN build.input :
          /\ j < d
          /\ build.input[j].stmt = "edge"
          /\ Len(build.input[j].vertices) = 2
          /\ build.input[j].vertices[2][1] = "N"
          /\ build.input[d].stmt = "node"
          /\ get_nodetype_from_gv_node(build.input[d]) # <<>>
          /\ build.input[j].vertices[1] = VertexN(build.input[d].id)
          /\ build.input[d].id \in DOMAIN build.graph.nodes
          /\ build.graph.nodes[build.input[d].id].branch = "parallel"
          /\ build.graph.nodes[build.input[d].id].destinations = <<>>

====
